---- MODULE Spec2Model ----
(***************************************************************************)
(* A model of the clap example programs of the repository: each program is *)
(* a process that is started with a command line and an environment, runs  *)
(* Cli::parse(), and then executes its main.  One specification per        *)
(* program (SpecProcessor for example 04, SpecMycli for example 03, ...).  *)
(***************************************************************************)
EXTENDS Integers, Sequences, FiniteSets, TLC

VARIABLES
    prog,    \* the program the process runs (#[command(name = ...)])
    runs,    \* the number of invocations of the program that have ended
    pc,      \* position of the process: "start", "parsed", "done", "exit"
    argv,    \* the command line scanned so far (the arguments it bound)
    env,     \* the environment variables of the process
    disk,    \* the files the process can read and write
    cli,     \* the result of Cli::parse()
    cfg,     \* the configuration the program resolved or loaded
    out      \* what the program printed, and its exit code

vars == <<prog, runs, pc, argv, env, disk, cli, cfg, out>>

\* Option<T>: None, and Some(x) with its value Unwrap(Some(x)) = x
None == <<>>
Some(x) == <<x>>
Unwrap(o) == o[1]

Range(s) == {s[i] : i \in DOMAIN s}

(***************************************************************************)
(* clap's validation of a parsed command line against the relations the    *)
(* derive attributes declare.  A schema is a record                        *)
(*   args      the argument ids of the command                             *)
(*   required  the ids (arguments or groups) that are required             *)
(*   groups    records [id, args, multiple, requires, conflicts]           *)
(*   conflicts arg id -> ids named by conflicts_with                       *)
(*   requires  arg id -> ids named by requires                             *)
(* `present` is the set of argument ids bound by a token of the command    *)
(* line (defaults and absent flags are not present).                       *)
(***************************************************************************)
\* The arguments an id stands for: itself, or the members of the group.
UnrollArgs(sch, id) ==
    IF id \in sch.args THEN {id}
    ELSE UNION {g.args : g \in {h \in sch.groups : h.id = id}}

ConflictArgs(sch, a) ==
        \* What an argument conflicts with: its own conflicts_with, the conflicts of
        \* the groups it is in, and the other members of each of its groups that does
        \* not allow multiple members (the default of ArgGroup).
    LET DirectConflicts ==
            LET GroupsForArg == {g \in sch.groups : a \in g.args}
            IN
            sch.conflicts[a] \cup
            UNION {g.conflicts \cup (IF g.multiple THEN {} ELSE g.args \ {a})
                      : g \in GroupsForArg}
    IN
                        UNION {UnrollArgs(sch, id) : id \in DirectConflicts}

\* Conflict rules need to be declared on one of the two arguments only.
Conflicting(sch, a, b) ==
    a # b /\ (b \in ConflictArgs(sch, a) \/ a \in ConflictArgs(sch, b))

\* A required argument is missing when it is not present and conflicts with
\* no present argument (conflict rules take precedence over being required);
\* a required group is missing when none of its members is present.
MissingRequired(sch, present) ==
        \* The ids required by this command line: the required ones, those a present
        \* argument requires, and those a present group requires.
    LET Requirements ==
            sch.required
            \cup UNION {sch.requires[a] : a \in present}
            \cup UNION {g.requires : g \in {h \in sch.groups : h.args \cap present # {}}}
    IN
    {r \in Requirements :
        IF r \in sch.args
        THEN r \notin present /\ ~\E p \in present : Conflicting(sch, r, p)
        ELSE UnrollArgs(sch, r) \cap present = {}}

\* Result<Cli, clap::Error>: the violations found (clap reports conflicts
\* before missing requirements).
Validate(sch, present) ==
        \* The (present, missing) pairs of the violated requires relations.
    LET MissingDependencies ==
            {d \in present \X MissingRequired(sch, present) : d[2] \in sch.requires[d[1]]}
    IN
    LET ConflictPairs ==
            {p \in present \X present : Conflicting(sch, p[1], p[2])}
    IN
    LET conf == ConflictPairs
        miss == MissingRequired(sch, present)
    IN  [ok       |-> conf = {} /\ miss = {},
         conflict |-> conf,
         missing  |-> miss,
         depends  |-> MissingDependencies]

(***************************************************************************)
(* Example 04: processor (groups and conflicts)                            *)
(***************************************************************************)
\* The longest command line considered, in arguments.
MaxArgs == 4

\* The arguments of Cli that take part in a relation.  The others (pretty,
\* metadata, output, retries, timeout) are optional and unrelated.
Args04 ==
    {"input", "stdin", "url", "json", "yaml", "xml", "csv",
     "user", "password", "token", "force", "dry_run", "verbose", "quiet",
     "compress", "compression_level"}

InputSource04_Multiple ==
    [id |-> "input_source", args |-> {"input", "stdin", "url"},
     multiple |-> TRUE, requires |-> {}, conflicts |-> {}]

InputSource04 ==
    [id |-> "input_source", args |-> {"input", "stdin", "url"},
     multiple |-> FALSE, requires |-> {}, conflicts |-> {}]

OutputFormat04 ==
    [id |-> "output_format", args |-> {"json", "yaml", "xml", "csv"},
     multiple |-> FALSE, requires |-> {}, conflicts |-> {}]

ArgRequires04_NoDryRun ==
    [a \in Args04 |->
        CASE a = "compression_level" -> {"compress"}
          [] OTHER                   -> {}]

ArgRequires04 ==
    [a \in Args04 |->
        CASE a = "dry_run"           -> {"force"}
          [] a = "compression_level" -> {"compress"}
          [] OTHER                   -> {}]

Schema04 ==
    LET ArgConflicts04 ==
            [a \in Args04 |->
                CASE a = "verbose" -> {"quiet"}
                  [] a = "quiet"   -> {"verbose"}
                  [] OTHER         -> {}]
    IN
    LET RequiredGroups04 == {"input_source", "output_format"}
    IN
    LET AuthToken04 ==
            [id |-> "auth_token", args |-> {"token"},
             multiple |-> FALSE, requires |-> {}, conflicts |-> {"auth_basic"}]
    IN
    LET AuthBasic04 ==
            [id |-> "auth_basic", args |-> {"user", "password"},
             multiple |-> FALSE, requires |-> {"user", "password"},
             conflicts |-> {"auth_token"}]
    IN
    [args      |-> Args04,
     required  |-> RequiredGroups04,
     groups    |-> {InputSource04, OutputFormat04, AuthBasic04, AuthToken04},
     conflicts |-> ArgConflicts04,
     requires  |-> ArgRequires04]

Init04 ==
    /\ prog = "processor"
    /\ runs = 0
    /\ pc = "start"
    /\ argv = {}
    /\ env = None
    /\ disk = None
    /\ cli = None
    /\ cfg = None
    /\ out = None

\* Cli::parse() scans the command line left to right; the next token binds
\* the argument a (an option given twice is not considered).
Match04(a) ==
    /\ prog = "processor" /\ pc = "start"
    /\ a \notin argv
    /\ Cardinality(argv) < MaxArgs
    /\ argv' = argv \cup {a}
    /\ UNCHANGED <<prog, runs, pc, env, disk, cli, cfg, out>>

\* The end of the command line: Cli::parse() validates what was bound and
\* returns; a rejected command line exits with code 2.
Parse04 ==
        \* Cli::parse() of processor, once every token has bound its argument.
    LET CliParse04(present) == Validate(Schema04, present)
    IN
    /\ prog = "processor" /\ pc = "start"
    /\ cli' = CliParse04(argv)
    /\ pc' = IF cli'.ok THEN "parsed" ELSE "exit"
    /\ out' = IF cli'.ok THEN out ELSE [code |-> 2]
    /\ UNCHANGED <<prog, runs, argv, env, disk, cfg>>

\* The body of main after parsing.
Main04 ==
    LET AuthLine04(present) ==
            IF "user" \in present THEN "Basic auth"
            ELSE IF "token" \in present THEN "Token auth"
            ELSE "None (anonymous)"
    IN
    LET FormatLine04(present) ==
            IF "json" \in present THEN "JSON"
            ELSE IF "yaml" \in present THEN "YAML"
            ELSE IF "xml" \in present THEN "XML"
            ELSE "CSV"
    IN
        \* The lines main prints for a parsed Cli.
    LET InputLine04(present) ==
            IF "input" \in present THEN "File"
            ELSE IF "stdin" \in present THEN "Standard input"
            ELSE IF "url" \in present THEN "URL"
            ELSE None
    IN
    /\ prog = "processor" /\ pc = "parsed"
    /\ out' = [code    |-> 0,
               input   |-> InputLine04(argv),
               format  |-> FormatLine04(argv),
               auth    |-> AuthLine04(argv),
               force   |-> "force" \in argv,
               dry_run |-> "dry_run" \in argv]
    /\ pc' = "done"
    /\ UNCHANGED <<prog, runs, argv, env, disk, cli, cfg>>

Next04 == (\E a \in Args04 : Match04(a)) \/ Parse04 \/ Main04

SpecProcessor == Init04 /\ [][Next04]_vars

\* The process has left Cli::parse().
Parsed04 == prog = "processor" /\ pc # "start"

\* The pairs of cli.conflict that lie inside the set of arguments S.
ConflictsWithin(S) == {p \in cli.conflict : p[1] \in S /\ p[2] \in S}

C5_BasicAuthAllOrNothing ==
    Parsed04 =>
        /\ (\E i \in InputSource04.args, f \in OutputFormat04.args :
               argv = {i, f, "user", "password"}) => cli.ok
        /\ Cardinality({"user", "password"} \cap argv) = 1 => ~cli.ok

(***************************************************************************)
(* Example 03: mycli (subcommands)                                         *)
(***************************************************************************)
\* The subcommand chains modelled, of Commands and RepoCommands.
RepoCreate == <<"repo", "create">>
RepoDelete == <<"repo", "delete">>
Status == <<"status">>

Leaves03 == {RepoCreate, RepoDelete, Status}

\* A chain that is a proper prefix of a leaf still needs a subcommand.
Prefixes03 == {<<>>, <<"repo">>}

\* #[arg(global = true)] of Cli
Globals03 == {"verbose", "quiet", "config"}

Flags03 == Globals03 \cup {"description", "public", "private", "readme", "license", "force"}

\* The required positional of each subcommand.
PositionalsOf03(cmd) == IF cmd \in {RepoCreate, RepoDelete} THEN {"name"} ELSE {}

ArgConflicts03_None == [a \in Flags03 \cup {"name"} |-> {}]

ArgConflicts03 ==
    [a \in Flags03 \cup {"name"} |->
        CASE a = "public"  -> {"private"}
          [] a = "private" -> {"public"}
          [] OTHER         -> {}]

Schema03(cmd) ==
    [args      |-> Flags03 \cup {"name"},
     required  |-> PositionalsOf03(cmd),
     groups    |-> {},
     conflicts |-> ArgConflicts03,
     requires  |-> [a \in Flags03 \cup {"name"} |-> {}]]

Init03 ==
    /\ prog = "mycli"
    /\ runs = 0
    /\ pc = "start"
    /\ argv = [cmd |-> <<>>, name |-> None, flags |-> {}]
    /\ env = None
    /\ disk = None
    /\ cli = None
    /\ cfg = None
    /\ out = None

\* The next token is the name of a subcommand of the current command.
MatchCommand03(c) ==
    /\ prog = "mycli" /\ pc = "start"
    /\ argv.cmd \in Prefixes03
    /\ Append(argv.cmd, c) \in Prefixes03 \cup Leaves03
    /\ argv' = [argv EXCEPT !.cmd = Append(@, c)]
    /\ UNCHANGED <<prog, runs, pc, env, disk, cli, cfg, out>>

\* The next token is a value: the positional of the subcommand, or an error
\* when the subcommand has no positional left.
MatchName03 ==
    /\ prog = "mycli" /\ pc = "start"
    /\ argv.cmd \in Leaves03
    /\ IF PositionalsOf03(argv.cmd) # {} /\ argv.name = None
       THEN /\ argv' = [argv EXCEPT !.name = Some("myproj")]
            /\ UNCHANGED <<pc, cli, out>>
       ELSE /\ cli' = [ok |-> FALSE, conflict |-> {}, missing |-> {},
                       depends |-> {}, unknown |-> "myproj"]
            /\ pc' = "exit"
            /\ out' = [code |-> 2]
            /\ UNCHANGED argv
    /\ UNCHANGED <<prog, runs, env, disk, cfg>>

\* The next token is a flag: bound when the current command declares it or
\* it is global, an unknown argument otherwise.
MatchFlag03(f) ==
        \* The named arguments of each subcommand, the global ones included.
    LET FlagsOf03(cmd) ==
            Globals03 \cup
            (CASE cmd = RepoCreate -> {"description", "public", "private", "readme", "license"}
               [] cmd = RepoDelete -> {"force"}
               [] OTHER            -> {})
    IN
    /\ prog = "mycli" /\ pc = "start"
    /\ f \notin argv.flags
    /\ Cardinality(argv.flags) < MaxArgs
    /\ IF f \in FlagsOf03(argv.cmd)
       THEN /\ argv' = [argv EXCEPT !.flags = @ \cup {f}]
            /\ UNCHANGED <<pc, cli, out>>
       ELSE /\ cli' = [ok |-> FALSE, conflict |-> {}, missing |-> {},
                       depends |-> {}, unknown |-> f]
            /\ pc' = "exit"
            /\ out' = [code |-> 2]
            /\ UNCHANGED argv
    /\ UNCHANGED <<prog, runs, env, disk, cfg>>

\* The end of the command line: let cli = Cli::parse().
Parse03 ==
        \* Cli::parse() of mycli at the end of the command line.
    LET CliParse03(a) ==
                \* The arguments a scanned command line binds.
            LET Present03 == a.flags \cup (IF a.name = None THEN {} ELSE {"name"})
            IN
            IF a.cmd \notin Leaves03
            THEN [ok |-> FALSE, conflict |-> {}, missing |-> {"subcommand"}, depends |-> {}]
            ELSE Validate(Schema03(a.cmd), Present03)
    IN
    /\ prog = "mycli" /\ pc = "start"
    /\ cli' = CliParse03(argv)
    /\ pc' = IF cli'.ok THEN "parsed" ELSE "exit"
    /\ out' = IF cli'.ok THEN out ELSE [code |-> 2]
    /\ UNCHANGED <<prog, runs, argv, env, disk, cfg>>

\* main: route to the command handler.
Main03 ==
    LET HandleStatus03 == [code |-> 0, line |-> "System status: OK"]
    IN
        \* handle_repo: the lines printed for repo create and repo delete.
    LET HandleRepo03(a) ==
            IF a.cmd = RepoCreate
            THEN [code       |-> 0,
                  line       |-> "Creating repository",
                  name       |-> Unwrap(a.name),
                  visibility |-> IF "private" \in a.flags THEN "private" ELSE "public",
                  readme     |-> "readme" \in a.flags]
            ELSE [code |-> 0,
                  line |-> IF "force" \in a.flags THEN "Force deleting repository"
                           ELSE "Deleting repository",
                  name |-> Unwrap(a.name)]
    IN
    /\ prog = "mycli" /\ pc = "parsed"
    /\ out' = IF argv.cmd = Status THEN HandleStatus03 ELSE HandleRepo03(argv)
    /\ pc' = "done"
    /\ UNCHANGED <<prog, runs, argv, env, disk, cli, cfg>>

Next03 ==
    \/ \E c \in {"repo", "create", "delete", "status"} : MatchCommand03(c)
    \/ MatchName03
    \/ \E f \in Flags03 : MatchFlag03(f)
    \/ Parse03
    \/ Main03

SpecMycli == Init03 /\ [][Next03]_vars

\* The command line was `repo create myproj` plus flags, and Cli::parse()
\* has returned at its end.
CreateParsed03 ==
    /\ prog = "mycli" /\ pc # "start"
    /\ argv.cmd = RepoCreate /\ argv.name # None
    /\ "unknown" \notin DOMAIN cli

\* C3 as stated: repo create with --public resolves visibility public, with
\* neither --public nor --private it fails with a missing required group,
\* and with both it fails with conflicting arguments.
C3_VisibilityGroupRequired ==
    CreateParsed03 =>
        /\ ("public" \in argv.flags /\ "private" \notin argv.flags /\ pc = "done")
              => out.visibility = "public"
        /\ argv.flags \cap {"public", "private"} = {}
              => ~cli.ok /\ cli.missing # {}
        /\ {"public", "private"} \subseteq argv.flags
              => ~cli.ok /\ <<"public", "private">> \in cli.conflict

\* C3 amended: repo create with --public resolves visibility public; with
\* neither --public nor --private it is accepted and the visibility is
\* public; with both it fails with conflicting arguments.
C3_VisibilityDefaultsToPublic ==
    CreateParsed03 =>
        /\ ("public" \in argv.flags /\ "private" \notin argv.flags)
              => cli.ok /\ (pc = "done" => out.visibility = "public")
        /\ argv.flags \cap {"public", "private"} = {}
              => cli.ok /\ (pc = "done" => out.visibility = "public")
        /\ {"public", "private"} \subseteq argv.flags
              => ~cli.ok /\ pc = "exit" /\ <<"public", "private">> \in cli.conflict

C3_Witness ==
    /\ CreateParsed03 /\ pc = "done"
    /\ argv.flags \cap {"public", "private"} = {}
    /\ out.visibility = "public"

(***************************************************************************)
(* Example 08: myapp (environment variables and configuration file)        *)
(***************************************************************************)
\* The most settings supplied over the command line, the environment and
\* the configuration file together.
MaxSupplied == 3

\* default_value = "localhost", default_value_t = 8080, 5 and 30
DefaultHost == "localhost"
DefaultPort == 8080
DefaultPoolSize == 5
DefaultTimeout == 30

\* The options of Cli modelled, with the values a token can give them.
CliOpts08 == {"host", "port", "database_pool_size", "database_timeout"}

\* The flags of Cli modelled (--show-config).
Flags08 == {"show_config"}

\* The values given to API_KEY and SECRET_TOKEN, and a value that is not
\* valid Unicode.
Secrets08 == {"s3cret", "hunter2"}
NotUnicode == "\\xff"

\* The environment variables the program reads.  Of MYAPP_HOST and MYAPP_PORT
\* the program only tests the presence.
EnvVars08 ==
    {"APP_HOST", "APP_PORT", "MYAPP_HOST", "MYAPP_PORT",
     "DATABASE_POOL_SIZE", "DATABASE_TIMEOUT", "API_KEY", "SECRET_TOKEN"}

\* The keys of FileConfig modelled (pool_size and timeout_seconds are those
\* of the [database] table).
FileKeys08 == {"host", "port", "pool_size", "timeout_seconds"}

ValuesOf08(k) ==
    LET Timeouts08 == {DefaultTimeout, 60}
    IN
    LET PoolSizes08 == {DefaultPoolSize, 10, 20}
    IN
    LET Ports08 == {DefaultPort, 3000, 5000, 9000}
    IN
    LET Hosts08 == {DefaultHost, "0.0.0.0", "127.0.0.1", "example.org"}
    IN
    CASE k \in {"host", "APP_HOST"}                                      -> Hosts08
      [] k = "MYAPP_HOST"                                                -> {"example.org"}
      [] k \in {"port", "APP_PORT"}                                      -> Ports08
      [] k = "MYAPP_PORT"                                                -> {9000}
      [] k \in {"API_KEY", "SECRET_TOKEN"}                               -> Secrets08 \cup {NotUnicode}
      [] k \in Flags08                                                   -> {TRUE}
      [] k \in {"database_pool_size", "DATABASE_POOL_SIZE", "pool_size"} -> PoolSizes08
      [] OTHER                                                           -> Timeouts08

\* #[arg(env = ...)] of each option of Cli
EnvOf08(opt) ==
    CASE opt = "host"               -> "APP_HOST"
      [] opt = "port"               -> "APP_PORT"
      [] opt = "database_pool_size" -> "DATABASE_POOL_SIZE"
      [] opt = "database_timeout"   -> "DATABASE_TIMEOUT"

\* default_value of each option of Cli
DefaultOf08(opt) ==
    CASE opt = "host"               -> DefaultHost
      [] opt = "port"               -> DefaultPort
      [] opt = "database_pool_size" -> DefaultPoolSize
      [] opt = "database_timeout"   -> DefaultTimeout

\* FileConfig::default(): every key None
FileDefault08 == [k \in FileKeys08 |-> None]

\* The value the configuration file gives the key k, None without a file.
FileValue08(k) == IF disk = None THEN None ELSE disk[k]

\* The number of settings supplied so far.
Supplied08 ==
    Cardinality({o \in CliOpts08 \cup Flags08 : argv[o] # None})
    + Cardinality({v \in EnvVars08 : env[v] # None})
    + Cardinality({k \in FileKeys08 : FileValue08(k) # None})

\* Cli::parse() of myapp: an option is the value of its token, else the value
\* of its environment variable, else its default.
CliParse08(a, e) ==
    [o \in CliOpts08 \cup Flags08 |->
        IF o \in Flags08 THEN a[o] # None
        ELSE IF a[o] # None THEN Unwrap(a[o])
        ELSE IF e[EnvOf08(o)] # None THEN Unwrap(e[EnvOf08(o)])
        ELSE DefaultOf08(o)]

\* ResolvedConfig::from_cli_and_file, with e the environment of the process.
FromCliAndFile(c, file_config, e) ==
        \* std::env::var(name).ok(): None when the variable is not set or its value
        \* is not valid Unicode.
    LET EnvVarOk(e0, name) == IF e0[name] = Some(NotUnicode) THEN None ELSE e0[name]
    IN
        \* std::env::var(name).is_ok()
    LET EnvIsOk(e0, name) == e0[name] # None
    IN
    LET file == IF file_config = None THEN FileDefault08 ELSE file_config
        hostSrc ==
            IF EnvIsOk(e, "APP_HOST") \/ EnvIsOk(e, "MYAPP_HOST") THEN "env"
            ELSE IF c.host # DefaultHost THEN "cli"
            ELSE IF file.host # None THEN "config file"
            ELSE "default"
        portSrc ==
            IF EnvIsOk(e, "APP_PORT") \/ EnvIsOk(e, "MYAPP_PORT") THEN "env"
            ELSE IF c.port # DefaultPort THEN "cli"
            ELSE IF file.port # None THEN "config file"
            ELSE "default"
    IN  [host |-> IF hostSrc = "config file" THEN Unwrap(file.host) ELSE c.host,
         port |-> IF portSrc = "config file" THEN Unwrap(file.port) ELSE c.port,
         database_pool_size |->
             IF file.pool_size # None THEN Unwrap(file.pool_size)
             ELSE c.database_pool_size,
         database_timeout |->
             IF file.timeout_seconds # None THEN Unwrap(file.timeout_seconds)
             ELSE c.database_timeout,
         api_key |-> EnvVarOk(e, "API_KEY"),
         secret_token |-> EnvVarOk(e, "SECRET_TOKEN"),
         sources |-> [host |-> hostSrc, port |-> portSrc]]

Init08 ==
    /\ prog = "myapp"
    /\ runs = 0
    /\ pc = "start"
    /\ argv = [o \in CliOpts08 \cup Flags08 |-> None]
    /\ env = [v \in EnvVars08 |-> None]
    /\ disk = None
    /\ cli = None
    /\ cfg = None
    /\ out = None

\* The process is started with the variable v set to x.
Export08(v, x) ==
    /\ prog = "myapp" /\ pc = "start"
    /\ env[v] = None
    /\ Supplied08 < MaxSupplied
    /\ env' = [env EXCEPT ![v] = Some(x)]
    /\ UNCHANGED <<prog, runs, pc, argv, disk, cli, cfg, out>>

\* The file named by --config holds the key k with the value x.
WriteFile08(k, x) ==
    /\ prog = "myapp" /\ pc = "start"
    /\ FileValue08(k) = None
    /\ Supplied08 < MaxSupplied
    /\ disk' = [IF disk = None THEN FileDefault08 ELSE disk EXCEPT ![k] = Some(x)]
    /\ UNCHANGED <<prog, runs, pc, argv, env, cli, cfg, out>>

\* The next tokens of the command line give the option o the value x.
Match08(o, x) ==
    /\ prog = "myapp" /\ pc = "start"
    /\ argv[o] = None
    /\ Supplied08 < MaxSupplied
    /\ argv' = [argv EXCEPT ![o] = Some(x)]
    /\ UNCHANGED <<prog, runs, pc, env, disk, cli, cfg, out>>

\* let cli = Cli::parse()
Parse08 ==
    /\ prog = "myapp" /\ pc = "start"
    /\ cli' = CliParse08(argv, env)
    /\ pc' = "parsed"
    /\ UNCHANGED <<prog, runs, argv, env, disk, cfg, out>>

\* main: load the file named by --config and merge the sources.
Resolve08 ==
    /\ prog = "myapp" /\ pc = "parsed"
    /\ cfg' = FromCliAndFile(cli, disk, env)
    /\ pc' = "resolved"
    /\ UNCHANGED <<prog, runs, argv, env, disk, cli, out>>

\* What main prints of the configuration c: with --show-config the resolved
\* settings and whether each secret is set, else the line of the server start.
Output08_PrintsSecrets(c, show_config) ==
    IF show_config
    THEN [code         |-> 0,
          host         |-> <<c.host, c.sources.host>>,
          port         |-> <<c.port, c.sources.port>>,
          pool_size    |-> c.database_pool_size,
          timeout      |-> c.database_timeout,
          api_key      |-> c.api_key,
          secret_token |-> c.secret_token]
    ELSE [code |-> 0, starting |-> <<c.host, c.port>>]

Output08(c, show_config) ==
    IF show_config
    THEN [code         |-> 0,
          host         |-> <<c.host, c.sources.host>>,
          port         |-> <<c.port, c.sources.port>>,
          pool_size    |-> c.database_pool_size,
          timeout      |-> c.database_timeout,
          api_key      |-> IF c.api_key # None THEN "[set]" ELSE "[not set]",
          secret_token |-> IF c.secret_token # None THEN "[set]" ELSE "[not set]"]
    ELSE [code |-> 0, starting |-> <<c.host, c.port>>]

\* main: print the resolved configuration, or the line of the server start.
Main08 ==
    /\ prog = "myapp" /\ pc = "resolved"
    /\ out' = Output08(cfg, cli.show_config)
    /\ pc' = "done"
    /\ UNCHANGED <<prog, runs, argv, env, disk, cli, cfg>>

Next08 ==
    \/ \E v \in EnvVars08 : \E x \in ValuesOf08(v) : Export08(v, x)
    \/ \E k \in FileKeys08 : \E x \in ValuesOf08(k) : WriteFile08(k, x)
    \/ \E o \in CliOpts08 \cup Flags08 : \E x \in ValuesOf08(o) : Match08(o, x)
    \/ Parse08
    \/ Resolve08
    \/ Main08

SpecMyapp == Init08 /\ [][Next08]_vars

\* The sources have been merged.
Resolved08 == prog = "myapp" /\ pc \in {"resolved", "done"}

\* The prefixed variable of the option o (host or port) is not set.
NoPrefixed08(o) == env[IF o = "host" THEN "MYAPP_HOST" ELSE "MYAPP_PORT"] = None

\* C1: precedence law for host and port: when the command line, APP_HOST /
\* APP_PORT, the configuration file and the default supply distinct values,
\* the resolved value and source are the command line's; without the
\* command line value they are the environment's; without that too, the
\* file's; without that too, the default's.
C1_PrecedenceLaw ==
    Resolved08 =>
        \A o \in {"host", "port"} :
            LET c == argv[o]
                e == env[EnvOf08(o)]
                f == FileValue08(o)
                d == Some(DefaultOf08(o))
            IN  NoPrefixed08(o) =>
                /\ (c # None /\ e # None /\ f # None /\ Cardinality({c, e, f, d}) = 4)
                      => cfg[o] = Unwrap(c) /\ cfg.sources[o] = "cli"
                /\ (c = None /\ e # None /\ f # None /\ Cardinality({e, f, d}) = 3)
                      => cfg[o] = Unwrap(e) /\ cfg.sources[o] = "env"
                /\ (c = None /\ e = None /\ f # None /\ f # d)
                      => cfg[o] = Unwrap(f) /\ cfg.sources[o] = "config file"
                /\ (c = None /\ e = None /\ f = None)
                      => cfg[o] = Unwrap(d) /\ cfg.sources[o] = "default"

\* C6: provenance decides the source: a --host or --port given on the
\* command line with the value of the default is resolved as that value
\* with source cli, and is not replaced by the value of the configuration
\* file.
C6_ExplicitDefaultValueIsCli ==
    Resolved08 =>
        \A o \in {"host", "port"} :
            (argv[o] = Some(DefaultOf08(o)) /\ env[EnvOf08(o)] = None /\ NoPrefixed08(o))
                => cfg[o] = DefaultOf08(o) /\ cfg.sources[o] = "cli"

\* C7: database_pool_size and database_timeout obey the priority command
\* line, environment, configuration file, default.
C7_DatabasePrecedence ==
    Resolved08 =>
        \A o \in {"database_pool_size", "database_timeout"} :
            LET f == FileValue08(IF o = "database_pool_size" THEN "pool_size"
                                 ELSE "timeout_seconds")
            IN  cfg[o] = IF argv[o] # None THEN Unwrap(argv[o])
                         ELSE IF env[EnvOf08(o)] # None THEN Unwrap(env[EnvOf08(o)])
                         ELSE IF f # None THEN Unwrap(f)
                         ELSE DefaultOf08(o)

(***************************************************************************)
(* Example 12: cloudctl (real-world project)                               *)
(***************************************************************************)
\* The most invocations of cloudctl in a row.
MaxRuns == 2

\* The fields of Config that get, set, unset and list know, in the order of
\* Config::list, and those of Profile.
KeyOrder12 == <<"project", "region", "zone", "endpoint", "output_format">>
Keys12 == Range(KeyOrder12)
ProfileKeys12 == {"project", "region", "zone", "endpoint"}

\* The keys and values given on the command line, the configuration files
\* and the profile names considered.
ArgKeys12 == {"project", "region", "bogus"}
\* Config::default()
ConfigDefault ==
    [project |-> None, region |-> None, zone |-> None, endpoint |-> None,
     output_format |-> None, profiles |-> [n \in {} |-> None]]

\* Config::get
ConfigGet(c, key) == IF key \in Keys12 THEN c[key] ELSE None

\* Config::set
ConfigSet(c, key, value) ==
    IF key \in Keys12
    THEN [ok |-> TRUE, config |-> [c EXCEPT ![key] = Some(value)]]
    ELSE [ok |-> FALSE, error |-> "InvalidArgument", config |-> c]

\* Config::unset
ConfigUnset_Keep(c, key) ==
    IF key \in Keys12
    THEN [ok |-> TRUE, config |-> c]
    ELSE [ok |-> FALSE, error |-> "InvalidArgument", config |-> c]

ConfigUnset(c, key) ==
    IF key \in Keys12
    THEN [ok |-> TRUE, config |-> [c EXCEPT ![key] = None]]
    ELSE [ok |-> FALSE, error |-> "InvalidArgument", config |-> c]

\* Config::list
ConfigList(c) ==
    LET set == SelectSeq(KeyOrder12, LAMBDA k : c[k] # None)
    IN  [i \in 1..Len(set) |-> <<set[i], Unwrap(c[set[i]])>>]

\* Config::with_profile
WithProfile(c, profile_name) ==
    IF profile_name \in DOMAIN c.profiles
    THEN [ok |-> TRUE,
          config |-> [k \in DOMAIN c |->
                         IF k \in ProfileKeys12 /\ c.profiles[profile_name][k] # None
                         THEN c.profiles[profile_name][k]
                         ELSE c[k]]]
    ELSE [ok |-> FALSE, error |-> "NotFound"]

\* CloudError::exit_code
ExitCode12(error) ==
    CASE error = "Config"          -> 1
      [] error = "NotFound"        -> 2
      [] error = "InvalidArgument" -> 4
      [] OTHER                     -> 10

\* toml::to_string_pretty: a key = value line for every field that is Some,
\* and a table for every profile.
ToToml(c) ==
    [values   |-> {<<k, Unwrap(c[k])>> : k \in {j \in Keys12 : c[j] # None}},
     profiles |-> [n \in DOMAIN c.profiles |->
                      {<<k, Unwrap(c.profiles[n][k])>>
                          : k \in {j \in ProfileKeys12 : c.profiles[n][j] # None}}]]

\* The value of a key among the key = value lines of a table.
TomlValue(lines, k) ==
    IF \E l \in lines : l[1] = k
    THEN Some((CHOOSE l \in lines : l[1] = k)[2])
    ELSE None

\* The path load_config and save_config use: the one given, or
\* Config::default_path().
ConfigPath(path) == IF path = None THEN "default" ELSE Unwrap(path)

\* load_config: the file at the path, or the default config without a file.
LoadConfig(d, path) ==
        \* toml::from_str with #[serde(default)]: a field without a line is None.
    LET FromToml(doc) ==
            [project       |-> TomlValue(doc.values, "project"),
             region        |-> TomlValue(doc.values, "region"),
             zone          |-> TomlValue(doc.values, "zone"),
             endpoint      |-> TomlValue(doc.values, "endpoint"),
             output_format |-> TomlValue(doc.values, "output_format"),
             profiles      |-> [n \in DOMAIN doc.profiles |->
                                   [k \in ProfileKeys12 |-> TomlValue(doc.profiles[n], k)]]]
    IN
    IF d[ConfigPath(path)] = None THEN ConfigDefault
    ELSE FromToml(Unwrap(d[ConfigPath(path)]))

\* save_config: the files after writing the config to the path.
SaveConfig(d, c, path) == [d EXCEPT ![ConfigPath(path)] = Some(ToToml(c))]

\* The command lines and environments of an invocation.
Argv12 ==
        \* The subcommands modelled: those of ConfigCommands, those of
        \* InstanceCommands that make changes or list, and Version.
    LET Commands12 ==
            LET Values12 == {"a", "b"}
            IN
            [kind : {"config get", "config unset"}, key : ArgKeys12]
            \cup [kind : {"config set"}, key : ArgKeys12, value : Values12]
            \cup [kind : {"config list", "config path", "version", "instances list",
                          "instances create", "instances start", "instances stop"}]
            \cup [kind : {"instances delete"}, force : BOOLEAN]
    IN
    LET ProfileNames12 == {"prod", "nope"}
    IN
    [config  : {None, Some("custom")},
     profile : {None} \cup {Some(n) : n \in ProfileNames12},
     dry_run : BOOLEAN,
     command : Commands12]

\* commands::execute
Execute(cmd, ctx, d) ==
        \* execute_instances: the lines printed; no file is touched.
    LET ExecuteInstances ==
            [ok |-> TRUE, disk |-> d,
             lines |->
                CASE cmd.kind = "instances list" -> <<"web-server-1", "db-server-1", "worker-1">>
                  [] cmd.kind = "instances create" ->
                        IF ctx.dry_run THEN <<"[dry-run] Would create instance">>
                        ELSE <<"Created instance">>
                  [] cmd.kind = "instances delete" ->
                        IF ~cmd.force THEN <<"will be deleted. Use --force to confirm.">>
                        ELSE IF ctx.dry_run THEN <<"[dry-run] Would delete instance">>
                        ELSE <<"Deleted instance">>
                  [] cmd.kind = "instances start" ->
                        IF ctx.dry_run THEN <<"[dry-run] Would start instances">>
                        ELSE <<"Starting instance">>
                  [] cmd.kind = "instances stop" ->
                        IF ctx.dry_run THEN <<"[dry-run] Would stop instances">>
                        ELSE <<"Stopping instance">>]
    IN
        \* execute_config: the result, the lines printed and the files afterwards.
    LET ExecuteConfig ==
            CASE cmd.kind = "config get" ->
                    [ok |-> TRUE, disk |-> d,
                     lines |-> <<IF ConfigGet(ctx.config, cmd.key) # None
                                 THEN Unwrap(ConfigGet(ctx.config, cmd.key))
                                 ELSE "(not set)">>]
              [] cmd.kind = "config set" ->
                    LET r == ConfigSet(ctx.config, cmd.key, cmd.value)
                    IN  IF r.ok
                        THEN [ok |-> TRUE, disk |-> SaveConfig(d, r.config, None),
                              lines |-> <<<<"Set", cmd.key, cmd.value>>>>]
                        ELSE [ok |-> FALSE, error |-> r.error, disk |-> d, lines |-> <<>>]
              [] cmd.kind = "config unset" ->
                    LET r == ConfigUnset(ctx.config, cmd.key)
                    IN  IF r.ok
                        THEN [ok |-> TRUE, disk |-> SaveConfig(d, r.config, None),
                              lines |-> <<<<"Unset", cmd.key>>>>]
                        ELSE [ok |-> FALSE, error |-> r.error, disk |-> d, lines |-> <<>>]
              [] cmd.kind = "config list" ->
                    [ok |-> TRUE, disk |-> d,
                     lines |-> IF ConfigList(ctx.config) = <<>> THEN <<"No configuration set">>
                               ELSE ConfigList(ctx.config)]
              [] cmd.kind = "config path" ->
                    [ok |-> TRUE, disk |-> d, lines |-> <<"default">>]
    IN
    IF cmd.kind \in {"config get", "config set", "config unset", "config list",
                     "config path"}
    THEN ExecuteConfig
    ELSE IF cmd.kind = "version"
    THEN [ok |-> TRUE, disk |-> d, lines |-> <<"cloudctl version">>]
    ELSE ExecuteInstances

Init12 ==
        \* A configuration with a project and the profile prod of another project.
    LET ConfigWithProfile ==
            [ConfigDefault EXCEPT
                !.project = Some("a"),
                !.profiles = [n \in {"prod"} |->
                                 [project |-> Some("b"), region |-> Some("a"),
                                  zone |-> None, endpoint |-> None]]]
    IN
    LET Paths12 == {"default", "custom"}
    IN
    /\ prog = "cloudctl"
    /\ runs = 0
    /\ pc = "idle"
    /\ argv = None
    /\ env = None
    /\ disk \in [Paths12 -> {None, Some(ToToml(ConfigWithProfile))}]
    /\ cli = None
    /\ cfg = None
    /\ out = None

\* cloudctl is invoked with some command line in some environment.
Exec12 ==
    LET Env12 ==
            [CLOUDCTL_CONFIG : {None, Some("custom")}, CLOUDCTL_PROFILE : {None, Some("prod")}]
    IN
    /\ prog = "cloudctl" /\ pc = "idle"
    /\ runs < MaxRuns
    /\ argv' \in Argv12
    /\ env' \in Env12
    /\ pc' = "start"
    /\ cli' = None
    /\ cfg' = None
    /\ out' = None
    /\ UNCHANGED <<prog, runs, disk>>

\* run: let cli = Cli::parse()
Parse12 ==
        \* Cli::parse() of cloudctl: --config and --profile fall back to their
        \* environment variables.
    LET CliParse12(a, e) ==
            [config  |-> IF a.config # None THEN a.config ELSE e.CLOUDCTL_CONFIG,
             profile |-> IF a.profile # None THEN a.profile ELSE e.CLOUDCTL_PROFILE,
             dry_run |-> a.dry_run,
             command |-> a.command]
    IN
    /\ prog = "cloudctl" /\ pc = "start"
    /\ cli' = CliParse12(argv, env)
    /\ pc' = "parsed"
    /\ UNCHANGED <<prog, runs, argv, env, disk, cfg, out>>

\* run: load the configuration and create the execution context.
Load12 ==
        \* run: the execution context built from the loaded config and the Cli.
    LET NewContext(c, d) ==
            [config  |-> LoadConfig(d, c.config),
             dry_run |-> c.dry_run,
             profile |-> c.profile]
    IN
    /\ prog = "cloudctl" /\ pc = "parsed"
    /\ cfg' = NewContext(cli, disk)
    /\ pc' = "loaded"
    /\ UNCHANGED <<prog, runs, argv, env, disk, cli, out>>

\* run: commands::execute(&cli.command, &ctx), and main's exit code.
Execute12 ==
    /\ prog = "cloudctl" /\ pc = "loaded"
    /\ LET r == Execute(cli.command, cfg, disk)
       IN  /\ disk' = r.disk
           /\ out' = IF r.ok THEN [code |-> 0, lines |-> r.lines]
                     ELSE [code |-> ExitCode12(r.error), error |-> r.error,
                           lines |-> r.lines]
    /\ pc' = "done"
    /\ UNCHANGED <<prog, runs, argv, env, cli, cfg>>

\* main returns: the process ends, and its files remain.
Exit12 ==
    /\ prog = "cloudctl" /\ pc = "done"
    /\ pc' = "idle"
    /\ runs' = runs + 1
    /\ argv' = None
    /\ env' = None
    /\ cli' = None
    /\ cfg' = None
    /\ out' = None
    /\ UNCHANGED <<prog, disk>>

Next12 ==
    \/ Exec12
    \/ Parse12
    \/ Load12
    \/ Execute12
    \/ Exit12

SpecCloudctl == Init12 /\ [][Next12]_vars

\* C8: with the global --dry-run flag no command makes changes: no step of
\* an invocation with --dry-run changes a configuration file.
C8_DryRunChangesNothing ==
    [][(prog = "cloudctl" /\ pc = "loaded" /\ cli.dry_run) => disk' = disk]_vars

\* C9: when a profile name is supplied by --profile or CLOUDCTL_PROFILE, the
\* commands execute against the loaded configuration merged with that
\* profile, and a name that is no profile of the configuration makes the
\* invocation fail with NotFound.
C9_ProfileSelectsConfig ==
    (prog = "cloudctl" /\ cli # None /\ cli.profile # None) =>
        LET loaded == LoadConfig(disk, cli.config)
            merged == WithProfile(loaded, Unwrap(cli.profile))
        IN  /\ (pc = "loaded" /\ merged.ok) => cfg.config = merged.config
            /\ (pc = "done" /\ Unwrap(cli.profile) \notin DOMAIN cfg.config.profiles)
                  => out.code = ExitCode12("NotFound")

\* ---------------------------------------------------------------------
\* Example 02 (args-demo) and example 07 (user create): the --tags option,
\* a Vec<String> with value_delimiter = ','.  A raw value is the sequence
\* of its characters; argv holds the raw values of the --tags occurrences
\* of the command line, in order of appearance.
\* ---------------------------------------------------------------------

MaxInput == 6

Delimiter02 == ","

\* Characters typed so far: each occurrence counts one for the option
\* name and one per character of its value.
RECURSIVE InputSize02(_)
InputSize02(tokens) ==
    IF tokens = <<>> THEN 0
    ELSE 1 + Len(Head(tokens)) + InputSize02(Tail(tokens))

\* One raw value split at the delimiter (str::split): the pieces between
\* the delimiters, empty pieces included; a value without a delimiter is
\* a single piece.
RECURSIVE SplitDelim02(_)
SplitDelim02(raw) ==
    LET FirstDelimiter02 ==
            CHOOSE i \in 1..Len(raw) :
                /\ raw[i] = Delimiter02
                /\ \A j \in 1..(i - 1) : raw[j] # Delimiter02
    IN
    IF Delimiter02 \notin Range(raw) THEN <<raw>>
    ELSE LET i == FirstDelimiter02
         IN  <<SubSeq(raw, 1, i - 1)>> \o SplitDelim02(SubSeq(raw, i + 1, Len(raw)))

RECURSIVE ParseTags02_Prepend(_)
ParseTags02_Prepend(tokens) ==
    IF tokens = <<>> THEN <<>>
    ELSE ParseTags02_Prepend(Tail(tokens)) \o SplitDelim02(Head(tokens))

\* ArgAction::Append on a Vec field: every occurrence pushes its split
\* pieces after those of the occurrences before it.
RECURSIVE ParseTags02(_)
ParseTags02(tokens) ==
    IF tokens = <<>> THEN <<>>
    ELSE SplitDelim02(Head(tokens)) \o ParseTags02(Tail(tokens))

Init02 ==
    /\ prog = "args-demo"
    /\ runs = 0
    /\ pc = "args"
    /\ argv = <<>>
    /\ env = None
    /\ disk = None
    /\ cli = None
    /\ cfg = None
    /\ out = None

\* The command line gains a --tags occurrence, its value still empty.
Occurrence02 ==
    /\ prog = "args-demo" /\ pc = "args"
    /\ InputSize02(argv) + 1 <= MaxInput
    /\ argv' = Append(argv, <<>>)
    /\ UNCHANGED <<prog, runs, pc, env, disk, cli, cfg, out>>

\* The value of the last occurrence gains a character.
Type02(c) ==
    /\ prog = "args-demo" /\ pc = "args"
    /\ argv # <<>>
    /\ InputSize02(argv) + 1 <= MaxInput
    /\ argv' = [argv EXCEPT ![Len(argv)] = Append(@, c)]
    /\ UNCHANGED <<prog, runs, pc, env, disk, cli, cfg, out>>

Parse02 ==
    LET CliParse02(tokens) == [tags |-> ParseTags02(tokens)]
    IN
    /\ prog = "args-demo" /\ pc = "args"
    /\ cli' = CliParse02(argv)
    /\ pc' = "parsed"
    /\ UNCHANGED <<prog, runs, argv, env, disk, cfg, out>>

Main02 ==
        \* The line main prints for the tags, if any.
    LET TagsLine02(args) ==
            IF args.tags # <<>> THEN <<args.tags>> ELSE <<>>
    IN
    /\ prog = "args-demo" /\ pc = "parsed"
    /\ out' = TagsLine02(cli)
    /\ pc' = "done"
    /\ UNCHANGED <<prog, runs, argv, env, disk, cli, cfg>>

Next02 ==
    LET Chars02 == {"a", "b", "c", Delimiter02}
    IN
    \/ Occurrence02
    \/ \E c \in Chars02 : Type02(c)
    \/ Parse02
    \/ Main02

SpecArgsDemo == Init02 /\ [][Next02]_vars

\* The text of a sequence of values written with the delimiter between
\* neighbours.
RECURSIVE JoinDelim02(_)
JoinDelim02(values) ==
    IF values = <<>> THEN <<>>
    ELSE IF Len(values) = 1 THEN Head(values)
    ELSE Head(values) \o <<Delimiter02>> \o JoinDelim02(Tail(values))

Parsed02 == prog = "args-demo" /\ pc \in {"parsed", "done"}

\* C10: --tags resolves in order of appearance: `--tags a,b,c` gives
\* [a, b, c], `--tags a --tags b` gives [a, b], and any mix of
\* comma-separated values and repeated occurrences gives the pieces of the
\* values, none holding a comma, in left-to-right order: written with
\* commas between them they read as the raw values written with commas
\* between them.
C10_TagsOrderPreserved ==
    Parsed02 =>
        /\ \A i \in 1..Len(cli.tags) : Delimiter02 \notin Range(cli.tags[i])
        /\ (argv = <<>>) <=> (cli.tags = <<>>)
        /\ JoinDelim02(cli.tags) = JoinDelim02(argv)
        /\ argv = << <<"a", ",", "b", ",", "c">> >>
              => cli.tags = << <<"a">>, <<"b">>, <<"c">> >>
        /\ argv = << <<"a">>, <<"b">> >>
              => cli.tags = << <<"a">>, <<"b">> >>

C10_Witness ==
    /\ prog = "args-demo" /\ pc = "done"
    /\ argv = << <<"a", ",", "b">>, <<"c">> >>
    /\ cli.tags = << <<"a">>, <<"b">>, <<"c">> >>
    /\ out = << cli.tags >>

(***************************************************************************)
(* Examples 05 (custom-parsers --percentage) and 07 (derive-demo user list *)
(* --limit): integer options with the built-in range validator.  argv is   *)
(* None without the option, else Some of the characters of its raw value;  *)
(* the other arguments of the command line are valid.                      *)
(***************************************************************************)
\* The most characters of the raw value.
MaxValueLen == 3

Progs05 == {"custom-parsers", "derive-demo"}

DigitChars == <<"0", "1", "2", "3", "4", "5", "6", "7", "8", "9">>
SignChars == {"-", "+"}
\* The number a sequence of digits reads as.
RECURSIVE DigitsValue(_)
DigitsValue(ds) ==
    LET DigitValue(c) == CHOOSE d \in 0..9 : DigitChars[d + 1] = c
    IN
    IF ds = <<>> THEN 0
    ELSE 10 * DigitsValue(SubSeq(ds, 1, Len(ds) - 1)) + DigitValue(ds[Len(ds)])

\* str::parse::<i64>: an optional sign and at least one digit, nothing else.
ParseI64(raw) ==
    LET signed == raw # <<>> /\ raw[1] \in SignChars
        ds     == IF signed THEN Tail(raw) ELSE raw
    IN  IF ds = <<>> \/ \E i \in 1..Len(ds) : ds[i] \notin Range(DigitChars)
        THEN [ok |-> FALSE]
        ELSE [ok |-> TRUE,
              value |-> IF signed /\ raw[1] = "-" THEN 0 - DigitsValue(ds)
                        ELSE DigitsValue(ds)]

RangeOf05_Exclusive(p) == 1..99

\* .range(1..=100) of percentage and of limit
RangeOf05(p) ==
    CASE p = "custom-parsers" -> 1..100
      [] p = "derive-demo"    -> 1..100

Init05 ==
    /\ prog \in Progs05
    /\ runs = 0
    /\ pc = "args"
    /\ argv = None
    /\ env = None
    /\ disk = None
    /\ cli = None
    /\ cfg = None
    /\ out = None

\* The command line gains the option, its value still empty.
Option05 ==
    /\ prog \in Progs05 /\ pc = "args"
    /\ argv = None
    /\ argv' = Some(<<>>)
    /\ UNCHANGED <<prog, runs, pc, env, disk, cli, cfg, out>>

\* The raw value gains a character.
Type05(c) ==
    /\ prog \in Progs05 /\ pc = "args"
    /\ argv # None
    /\ Len(Unwrap(argv)) < MaxValueLen
    /\ argv' = Some(Append(Unwrap(argv), c))
    /\ UNCHANGED <<prog, runs, pc, env, disk, cli, cfg, out>>

Parse05 ==
        \* Cli::parse() for the option: its parsed value, or its default.
    LET CliParse05(p, a) ==
                \* RangedI64ValueParser: the raw value read as an i64 and tested against
                \* the range; both failures are reported as an invalid value.
            LET RangedParse(p0, raw) ==
                    LET r == ParseI64(raw)
                    IN  IF ~r.ok THEN [ok |-> FALSE, error |-> "InvalidValue"]
                        ELSE IF r.value \notin RangeOf05(p0) THEN [ok |-> FALSE, error |-> "InvalidValue"]
                        ELSE [ok |-> TRUE, value |-> r.value]
            IN
                \* default_value_t of percentage and of limit
            LET DefaultOf05 ==
                    CASE p = "custom-parsers" -> 50
                      [] p = "derive-demo"    -> 20
            IN
            IF a = None THEN [ok |-> TRUE, value |-> DefaultOf05]
            ELSE RangedParse(p, Unwrap(a))
    IN
    /\ prog \in Progs05 /\ pc = "args"
    /\ cli' = CliParse05(prog, argv)
    /\ pc' = "parsed"
    /\ UNCHANGED <<prog, runs, argv, env, disk, cfg, out>>

\* main prints the value; a parse error has ended the process with code 2.
Main05 ==
    /\ prog \in Progs05 /\ pc = "parsed"
    /\ out' = IF cli.ok THEN [code |-> 0, value |-> cli.value]
              ELSE [code |-> 2, error |-> cli.error]
    /\ pc' = "done"
    /\ UNCHANGED <<prog, runs, argv, env, disk, cli, cfg>>

Next05 ==
    LET Chars05 == Range(DigitChars) \cup SignChars
    IN
    \/ Option05
    \/ \E c \in Chars05 : Type05(c)
    \/ Parse05
    \/ Main05

SpecRanged == Init05 /\ [][Next05]_vars

\* The decimal numeral of a natural number.
RECURSIVE Decimal(_)
Decimal(v) ==
    IF v < 10 THEN <<DigitChars[v + 1]>>
    ELSE Decimal(v \div 10) \o <<DigitChars[(v % 10) + 1]>>

\* n zeros
Zeros(n) == [i \in 1..n |-> "0"]

\* The raw value writes the number v: its numeral, possibly after zeros
\* and a plus sign.
Writes05(raw, v) ==
    \E z \in 0..(MaxValueLen + 1) :
        \/ raw = Zeros(z) \o Decimal(v)
        \/ raw = <<"+">> \o Zeros(z) \o Decimal(v)

\* The ways of writing the numbers 1 to 100.
InRangeNumerals05 ==
    {sign \o Zeros(z) \o Decimal(v) :
        sign \in {<<>>, <<"+">>}, z \in 0..(MaxValueLen + 1), v \in 1..100}

Parsed05 == prog \in Progs05 /\ pc \in {"parsed", "done"} /\ argv # None

\* C11: an integer option declared with range 1..=100 (percentage,
\* limit) accepts its raw value exactly when it writes a number v with
\* 1 <= v <= 100, and resolves to v; "1" and "100" are accepted, "0" and
\* "101" fail with an invalid-value error.
C11_RangeBoundary ==
    Parsed05 =>
        LET raw == Unwrap(argv)
        IN  /\ cli.ok <=> raw \in InRangeNumerals05
            /\ cli.ok => (cli.value \in 1..100 /\ Writes05(raw, cli.value))
            /\ ~cli.ok => cli.error = "InvalidValue"
            /\ raw \in {<<"1">>, <<"1", "0", "0">>} => cli.ok
            /\ raw \in {<<"0">>, <<"1", "0", "1">>} => ~cli.ok

C11_Witness ==
    /\ prog = "derive-demo" /\ pc = "done"
    /\ argv = Some(<<"1", "0", "0">>)
    /\ out = [code |-> 0, value |-> 100]

(***************************************************************************)
(* Example 11: testable-cli.  A token of the command line is the sequence  *)
(* of its symbols: <<"-", "v">> is -v, <<"-", "-", "count">> is --count,   *)
(* <<"1", "0">> is 10, <<"World">> is the word World, <<>> is the empty    *)
(* string.  argv holds the tokens read so far, cli the state of the        *)
(* parser and then the parsed Cli, cfg the CommandResult.  The generated   *)
(* --help and --version are not modelled.                                  *)
(***************************************************************************)
\* The most tokens of a command line.
MaxTokens == 5

\* The widths i64 and u32 are scaled down to.
I64Bits == 5
U32Bits == 4

I64Min == 0 - 2 ^ (I64Bits - 1)
I64Max == 2 ^ (I64Bits - 1) - 1
\* The tokens considered.
Tokens11 ==
    { <<"-", "v">>, <<"-", "-", "verbose">>, <<"-", "-">>,
      <<"hello">>, <<"add">>, <<"greet">>, <<"process">>, <<"bogus">>,
      <<"World">>, <<>>,
      <<"-", "5">>, <<"1", "0">>, <<"-", "3">>, <<"0">>, <<"2">>,
      <<"-", "-", "count">>, <<"-", "g">>, <<"Hi">>, <<"-", "m">>, <<"fast">> }

ShortOf11_RootOnly(cmd, c) ==
    CASE c = "v" /\ cmd = None            -> Some("verbose")
      [] cmd = Some("greet") /\ c = "g"   -> Some("greeting")
      [] cmd = Some("greet") /\ c = "c"   -> Some("count")
      [] cmd = Some("process") /\ c = "o" -> Some("output")
      [] cmd = Some("process") /\ c = "m" -> Some("mode")
      [] OTHER                            -> None

\* The argument a short name stands for in a command.
ShortOf11(cmd, c) ==
    CASE c = "v"                          -> Some("verbose")
      [] cmd = Some("greet") /\ c = "g"   -> Some("greeting")
      [] cmd = Some("greet") /\ c = "c"   -> Some("count")
      [] cmd = Some("process") /\ c = "o" -> Some("output")
      [] cmd = Some("process") /\ c = "m" -> Some("mode")
      [] OTHER                            -> None

\* The parser before the first token.
Start11 ==
    [verbose |-> FALSE, command |-> None, trailing |-> FALSE, pending |-> None,
     name |-> None, numbers |-> <<>>, greeting |-> None, count |-> None,
     input |-> None, output |-> None, mode |-> None, error |-> None]

Fail11(st, kind) == [st EXCEPT !.error = Some(kind)]

\* value_parser of i64 and of u32
ParseInt11(raw, lo, hi) ==
    LET r == ParseI64(raw)
    IN  IF r.ok /\ r.value >= lo /\ r.value <= hi THEN r ELSE [ok |-> FALSE]

\* A raw value is parsed and stored in its argument: numbers appends, the
\* others are set once.
Push11(st, id, raw) ==
    LET ParseU32 ==
            LET U32Max == 2 ^ U32Bits - 1
            IN
            IF raw # <<>> /\ raw[1] = "-" THEN [ok |-> FALSE]
            ELSE ParseInt11(raw, 0, U32Max)
    IN
        \* value_parser = ["fast", "accurate", "balanced"]
    LET Modes11 == { <<"fast">>, <<"accurate">>, <<"balanced">> }
    IN
    CASE id = "numbers" ->
            LET r == ParseInt11(raw, I64Min, I64Max)
            IN  IF r.ok THEN [st EXCEPT !.numbers = Append(@, r.value)]
                ELSE Fail11(st, "InvalidValue")
      [] id = "count" ->
            LET r == ParseU32
            IN  IF st.count # None THEN Fail11(st, "ArgumentConflict")
                ELSE IF r.ok THEN [st EXCEPT !.count = Some(r.value)]
                ELSE Fail11(st, "InvalidValue")
      [] id = "mode" ->
            IF st.mode # None THEN Fail11(st, "ArgumentConflict")
            ELSE IF raw \in Modes11 THEN [st EXCEPT !.mode = Some(raw)]
            ELSE Fail11(st, "InvalidValue")
      [] OTHER ->
            IF st[id] # None THEN Fail11(st, "ArgumentConflict")
            ELSE [st EXCEPT ![id] = Some(raw)]

\* An argument named by a flag token: verbose is set, once; an option
\* takes the attached value or waits for the next token.  An option still
\* waiting for its value has none.
Named11(st, id, attached) ==
    IF st.pending # None THEN Fail11(st, "InvalidValue")
    ELSE IF id = "verbose"
    THEN IF attached # None THEN Fail11(st, "TooManyValues")
         ELSE IF st.verbose THEN Fail11(st, "ArgumentConflict")
         ELSE [st EXCEPT !.verbose = TRUE]
    ELSE IF attached # None THEN Push11(st, id, Unwrap(attached))
    ELSE [st EXCEPT !.pending = Some(id)]

\* A cluster of short names: flags one after the other, an option takes
\* the rest of the cluster as its value.
RECURSIVE ShortArg11(_, _)
ShortArg11(st, cluster) ==
    IF cluster = <<>> \/ st.error # None THEN st
    ELSE LET id == ShortOf11(st.command, Head(cluster))
         IN  IF id = None THEN Fail11(st, "UnknownArgument")
             ELSE IF Unwrap(id) = "verbose"
             THEN ShortArg11(Named11(st, "verbose", None), Tail(cluster))
             ELSE Named11(st, Unwrap(id),
                          IF Tail(cluster) = <<>> THEN None ELSE Some(Tail(cluster)))

\* The parser reads one token.
Step11(st, t) ==
        \* A token that is no flag and no option value: the subcommand name at
        \* the root, the next positional in a subcommand.
    LET Positional11 ==
                \* enum Commands
            LET Subcommands11 == {"hello", "add", "greet", "process"}
            IN
            CASE st.command = None ->
                    IF st.trailing THEN Fail11(st, "UnknownArgument")
                    ELSE IF Len(t) = 1 /\ t[1] \in Subcommands11
                    THEN [st EXCEPT !.command = Some(t[1])]
                    ELSE Fail11(st, "InvalidSubcommand")
              [] st.command = Some("hello") ->
                    IF st.name = None THEN Push11(st, "name", t)
                    ELSE Fail11(st, "UnknownArgument")
              [] st.command = Some("add") -> Push11(st, "numbers", t)
              [] st.command = Some("greet") ->
                    IF st.name = None THEN Push11(st, "name", t)
                    ELSE Fail11(st, "UnknownArgument")
              [] st.command = Some("process") ->
                    IF st.input = None THEN Push11(st, "input", t)
                    ELSE Fail11(st, "UnknownArgument")
    IN
    LET LongArg11 ==
                \* The argument a long name stands for in a command (None: no argument).
            LET LongOf11(cmd, n) ==
                    CASE n = "verbose"                                          -> Some("verbose")
                      [] cmd = Some("greet") /\ n \in {"greeting", "count"}     -> Some(n)
                      [] cmd = Some("process") /\ n \in {"output", "mode"}      -> Some(n)
                      [] OTHER                                                  -> None
            IN
            LET id       == LongOf11(st.command, t[3])
                attached == IF Len(t) >= 4 /\ t[4] = "=" THEN Some(SubSeq(t, 5, Len(t)))
                            ELSE None
            IN  IF id = None \/ (Len(t) >= 4 /\ t[4] # "=") THEN Fail11(st, "UnknownArgument")
                ELSE Named11(st, Unwrap(id), attached)
    IN
    LET IsShort11 == Len(t) >= 2 /\ t[1] = "-" /\ t[2] # "-"
    IN
    LET IsLong11 == Len(t) >= 3 /\ t[1] = "-" /\ t[2] = "-"
    IN
    LET IsEscape11 == t = <<"-", "-">>
    IN
    IF ~st.trailing /\ IsEscape11
    THEN IF st.pending # None THEN Fail11(st, "InvalidValue")
         ELSE [st EXCEPT !.trailing = TRUE]
    ELSE IF ~st.trailing /\ IsLong11 THEN LongArg11
    ELSE IF ~st.trailing /\ IsShort11 THEN ShortArg11(st, Tail(t))
    ELSE IF st.pending # None
    THEN Push11([st EXCEPT !.pending = None], Unwrap(st.pending), t)
    ELSE Positional11

Finish11_AddOptional(st) ==
    IF st.pending # None THEN Fail11(st, "InvalidValue")
    ELSE IF st.command = None THEN Fail11(st, "MissingSubcommand")
    ELSE IF st.command \in {Some("hello"), Some("greet")} /\ st.name = None
    THEN Fail11(st, "MissingRequiredArgument")
    ELSE IF st.command = Some("process") /\ st.input = None
    THEN Fail11(st, "MissingRequiredArgument")
    ELSE [st EXCEPT !.greeting = IF st.command = Some("greet") /\ @ = None
                                 THEN Some(<<"Hello">>) ELSE @,
                    !.count = IF st.command = Some("greet") /\ @ = None
                              THEN Some(1) ELSE @]

\* The end of the command line: required arguments and defaults.
Finish11(st) ==
    IF st.pending # None THEN Fail11(st, "InvalidValue")
    ELSE IF st.command = None THEN Fail11(st, "MissingSubcommand")
    ELSE IF st.command \in {Some("hello"), Some("greet")} /\ st.name = None
    THEN Fail11(st, "MissingRequiredArgument")
    ELSE IF st.command = Some("add") /\ st.numbers = <<>>
    THEN Fail11(st, "MissingRequiredArgument")
    ELSE IF st.command = Some("process") /\ st.input = None
    THEN Fail11(st, "MissingRequiredArgument")
    ELSE [st EXCEPT !.greeting = IF st.command = Some("greet") /\ @ = None
                                 THEN Some(<<"Hello">>) ELSE @,
                    !.count = IF st.command = Some("greet") /\ @ = None
                              THEN Some(1) ELSE @]

\* Cli::try_parse_from: the parser run over a whole command line.
RECURSIVE Scan11(_, _)
Scan11(st, tokens) ==
    IF tokens = <<>> \/ st.error # None THEN st
    ELSE Scan11(Step11(st, Head(tokens)), Tail(tokens))

TryParseFrom11(tokens) ==
    LET st == Scan11(Start11, tokens)
    IN  IF st.error # None THEN st ELSE Finish11(st)

\* i64::to_string and u32::to_string
I64ToString(n) == IF n < 0 THEN <<"-">> \o Decimal(0 - n) ELSE Decimal(n)

\* join(sep) of texts
RECURSIVE Join11(_, _)
Join11(texts, sep) ==
    IF texts = <<>> THEN <<>>
    ELSE IF Len(texts) = 1 THEN Head(texts)
    ELSE Head(texts) \o <<sep>> \o Join11(Tail(texts), sep)

\* CommandResult::success and CommandResult::error; output is the
\* sequence of the lines of the text, a line the sequence of its symbols.
Success11(output) == [output |-> output, exit_code |-> 0, panicked |-> FALSE]
Error11(output, code) == [output |-> output, exit_code |-> code, panicked |-> FALSE]

ExecuteHello_NoCheck(name, verbose) ==
    Success11(<< <<"Hello", ", ">> \o name \o <<"!">> >>)

\* execute_hello
ExecuteHello(name, verbose) ==
    IF name = <<>> THEN Error11(<< <<"Name cannot be empty">> >>, 1)
    ELSE IF verbose
    THEN Success11(<< <<"[verbose]", " Greeting: ">> \o name,
                      <<"Hello", ", ">> \o name \o <<"!">> >>)
    ELSE Success11(<< <<"Hello", ", ">> \o name \o <<"!">> >>)

RECURSIVE PlainSum_SkipFirst(_)
PlainSum_SkipFirst(numbers) ==
    IF Len(numbers) <= 1 THEN 0
    ELSE numbers[Len(numbers)] + PlainSum_SkipFirst(SubSeq(numbers, 1, Len(numbers) - 1))

RECURSIVE PlainSum(_)
PlainSum(numbers) ==
    IF numbers = <<>> THEN 0 ELSE Head(numbers) + PlainSum(Tail(numbers))

\* execute_add: the results the builds can give.  Where the sum overflows:
\* a panic in a build with overflow checks, else the wrapped sum.
ExecuteAdd(numbers, verbose) ==
        \* numbers.iter().sum() leaves the range of i64 at some addition.
    LET SumOverflows ==
            \E k \in 1..Len(numbers) : PlainSum(SubSeq(numbers, 1, k)) \notin I64Min..I64Max
    IN
        \* Two's complement wrap-around of an i64
    LET WrapI64(x) == ((x - I64Min) % (2 ^ I64Bits)) + I64Min
    IN
        \* A panic: no CommandResult, the process ends with code 101.
    LET Panic11 == [output |-> <<>>, exit_code |-> 101, panicked |-> TRUE]
    IN
    IF numbers = <<>> THEN {Error11(<< <<"No numbers", " provided">> >>, 1)}
    ELSE LET sum      == WrapI64(PlainSum(numbers))
             nums_str == Join11([i \in 1..Len(numbers) |-> I64ToString(numbers[i])], " + ")
             result   == IF verbose
                         THEN Success11(<< <<"[verbose]", " Calculating: ">> \o nums_str,
                                           <<"Sum: ">> \o I64ToString(sum) >>)
                         ELSE Success11(<< <<"Sum: ">> \o I64ToString(sum) >>)
         IN  IF SumOverflows THEN {result, Panic11}
             ELSE {result}

ExecuteGreet_Once(name, greeting, count, verbose) ==
    IF name = <<>> THEN Error11(<< <<"Name cannot be empty">> >>, 1)
    ELSE IF count = 0 THEN Error11(<< <<"Count must be at least 1">> >>, 1)
    ELSE Success11(<< greeting \o <<", ">> \o name \o <<"!">> >>)

\* execute_greet
ExecuteGreet(name, greeting, count, verbose) ==
    IF name = <<>> THEN Error11(<< <<"Name cannot be empty">> >>, 1)
    ELSE IF count = 0 THEN Error11(<< <<"Count must be at least 1">> >>, 1)
    ELSE LET head == IF verbose
                     THEN << <<"[verbose]", " Greeting ">> \o name \o <<" ">>
                                \o Decimal(count) \o <<" times">> >>
                     ELSE <<>>
             body == [i \in 1..count |->
                         IF verbose /\ count > 1
                         THEN <<"[">> \o Decimal(i) \o <<"] ">> \o greeting
                                 \o <<", ">> \o name \o <<"!">>
                         ELSE greeting \o <<", ">> \o name \o <<"!">>]
         IN  Success11(head \o body)

\* execute_process
ExecuteProcess(input, output, mode, verbose) ==
    IF input = <<>> THEN Error11(<< <<"Input file required">> >>, 1)
    ELSE LET m           == IF mode = None THEN <<"balanced">> ELSE Unwrap(mode)
             output_file == IF output = None THEN input \o <<".out">> ELSE Unwrap(output)
             head == IF verbose
                     THEN << <<"[verbose]", " Processing: ">> \o input,
                             <<"[verbose]", " Mode: ">> \o m >>
                     ELSE <<>>
         IN  Success11(head \o << <<"Processed ">> \o input \o <<" -> ">> \o output_file
                                     \o <<" (mode: ">> \o m \o <<")">> >>)

\* execute: the results the builds can give for a parsed Cli.
Execute11(c) ==
    CASE c.command = Some("hello") -> {ExecuteHello(Unwrap(c.name), c.verbose)}
      [] c.command = Some("add") -> ExecuteAdd(c.numbers, c.verbose)
      [] c.command = Some("greet") ->
            {ExecuteGreet(Unwrap(c.name), Unwrap(c.greeting), Unwrap(c.count), c.verbose)}
      [] c.command = Some("process") ->
            {ExecuteProcess(Unwrap(c.input), c.output, c.mode, c.verbose)}

Init11 ==
    /\ prog = "testable-cli"
    /\ runs = 0
    /\ pc = "args"
    /\ argv = <<>>
    /\ env = None
    /\ disk = None
    /\ cli = Start11
    /\ cfg = None
    /\ out = None

\* Cli::parse() reads the next token of the command line.
Match11(t) ==
    /\ prog = "testable-cli" /\ pc = "args"
    /\ Len(argv) < MaxTokens
    /\ argv' = Append(argv, t)
    /\ cli' = Step11(cli, t)
    /\ pc' = IF cli'.error # None THEN "failed" ELSE "args"
    /\ UNCHANGED <<prog, runs, env, disk, cfg, out>>

\* Cli::parse() at the end of the command line.
Parse11 ==
    /\ prog = "testable-cli" /\ pc = "args"
    /\ cli' = Finish11(cli)
    /\ pc' = IF cli'.error # None THEN "failed" ELSE "parsed"
    /\ UNCHANGED <<prog, runs, argv, env, disk, cfg, out>>

\* Cli::parse() on an error: the message on stderr and exit code 2.
ParseExit11 ==
    /\ prog = "testable-cli" /\ pc = "failed"
    /\ out' = [code |-> 2, stdout |-> <<>>, stderr |-> << <<"error">> >>]
    /\ pc' = "done"
    /\ UNCHANGED <<prog, runs, argv, env, disk, cli, cfg>>

\* main: let result = execute(&cli)
Run11 ==
    /\ prog = "testable-cli" /\ pc = "parsed"
    /\ cfg' \in Execute11(cli)
    /\ pc' = "executed"
    /\ UNCHANGED <<prog, runs, argv, env, disk, cli, out>>

\* main: print the output and exit with the exit code; a panic has ended
\* the process with its own code and nothing on stdout.
Main11 ==
    /\ prog = "testable-cli" /\ pc = "executed"
    /\ out' = [code |-> cfg.exit_code, stdout |-> cfg.output,
               stderr |-> IF cfg.panicked THEN << <<"panicked">> >> ELSE <<>>]
    /\ pc' = "done"
    /\ UNCHANGED <<prog, runs, argv, env, disk, cli, cfg>>

Next11 ==
    \/ \E t \in Tokens11 : Match11(t)
    \/ Parse11
    \/ ParseExit11
    \/ Run11
    \/ Main11

SpecTestableCli == Init11 /\ [][Next11]_vars

VerboseTokens11 == { <<"-", "v">>, <<"-", "-", "verbose">> }

\* The tokens with the i-th removed, and with the token t put after the
\* first j.
RemoveAt(tokens, i) == SubSeq(tokens, 1, i - 1) \o SubSeq(tokens, i + 1, Len(tokens))
InsertAt(tokens, j, t) == SubSeq(tokens, 1, j) \o <<t>> \o SubSeq(tokens, j + 1, Len(tokens))

\* After the first j tokens a flag can follow: no option waits for its
\* value and no -- has been read.
FlagPosition11(tokens, j) ==
    LET st == Scan11(Start11, SubSeq(tokens, 1, j))
    IN  st.error = None /\ st.pending = None /\ ~st.trailing

Parsed11 == prog = "testable-cli" /\ pc \in {"parsed", "executed", "done"} /\ cli.error = None

\* C12: the global verbose flag is position-independent: a command line
\* with -v or --verbose as a flag resolves verbose to true, and with the
\* flag put anywhere else a flag can stand, before the subcommand name or
\* after it among the subcommand's tokens, the parsed command and its
\* other arguments are the same.
C12_GlobalVerboseAnywhere ==
    Parsed11 =>
        \A i \in 1..Len(argv) :
            (argv[i] \in VerboseTokens11 /\ FlagPosition11(argv, i - 1)) =>
                /\ cli.verbose
                /\ \A v \in VerboseTokens11 : \A j \in 0..(Len(argv) - 1) :
                       FlagPosition11(RemoveAt(argv, i), j) =>
                           TryParseFrom11(InsertAt(RemoveAt(argv, i), j, v)) = cli

C12_Witness ==
    /\ prog = "testable-cli" /\ pc = "done"
    /\ argv = << <<"greet">>, <<"World">>, <<"-", "v">> >>
    /\ cli.verbose
    /\ cli = TryParseFrom11(<< <<"-", "-", "verbose">>, <<"greet">>, <<"World">> >>)
    /\ out.code = 0
    /\ out.stdout = << <<"[verbose]", " Greeting ", "World", " ", "1", " times">>,
                       <<"Hello", ", ", "World", "!">> >>

(***************************************************************************)
(* Example 09: error-demo.  argv is the command line as Cli describes it,  *)
(* or a request for the generated help or version; a path, a name or a     *)
(* URL is the sequence of its parts, and contains(w) holds when w is one   *)
(* of them.  disk is the set of the paths that can be read.  The           *)
(* suggestions of UserNotFound are not modelled.                           *)
(***************************************************************************)
Paths09 ==
    { <<"existing", ".txt">>, <<"nonexistent", ".txt">>, <<"missing", ".toml">>,
      <<"protected">>, <<"readonly">>, <<"exists">>, <<"bad", ".toml">>, <<"..">> }

Users09 == { <<"admin">>, <<"admn">>, <<"zed">> }
\* const KNOWN_USERS
KNOWN_USERS == { <<"admin">>, <<"alice">>, <<"bob">>, <<"charlie">>, <<"david">> }

\* enum AppError
AppErrors09 ==
    {"FileNotFound", "PermissionDenied", "UserNotFound", "InvalidUrl", "ConfigError",
     "NetworkError", "Timeout", "RateLimited", "ValidationError"}

\* AppError::exit_code
ExitCode09(variant) ==
    CASE variant = "FileNotFound"     -> 2
      [] variant = "PermissionDenied" -> 3
      [] variant = "UserNotFound"     -> 4
      [] variant = "InvalidUrl"       -> 5
      [] variant = "ConfigError"      -> 6
      [] variant = "NetworkError"     -> 7
      [] variant = "Timeout"          -> 8
      [] variant = "RateLimited"      -> 9
      [] variant = "ValidationError"  -> 10

\* An AppError turned into an anyhow::Error, and an anyhow::Error that is
\* none (bail!, or an io::Error with a context).
AppErr09(variant) == [ok |-> FALSE, app |-> TRUE, variant |-> variant]
OtherErr09(message) == [ok |-> FALSE, app |-> FALSE, variant |-> message]
Ok09 == [ok |-> TRUE, app |-> FALSE, variant |-> "none"]

\* path.file_name(), "unknown" for a path without one
FileName09(path) == IF path = <<"..">> THEN <<"unknown">> ELSE path

\* str::contains
Contains09(text, word) == word \in Range(text)

\* run
Run09(c, d) ==
        \* load_config, with d the paths that can be read
    LET LoadConfig09(path, d0) ==
            LET filename == FileName09(path)
            IN  IF Contains09(filename, "bad") \/ Contains09(filename, "invalid")
                THEN AppErr09("ConfigError")
                ELSE IF Contains09(filename, "missing") /\ path \notin d0
                THEN OtherErr09("Failed to load config")
                ELSE Ok09
    IN
        \* ping_host
    LET PingHost09(host) ==
            IF Contains09(host, "unreachable") THEN AppErr09("NetworkError") ELSE Ok09
    IN
        \* fetch_url
    LET FetchUrl09(url) ==
            IF url = <<>> \/ url[1] \notin {"http://", "https://"} THEN AppErr09("InvalidUrl")
            ELSE IF Contains09(url, "slow") THEN AppErr09("Timeout")
            ELSE IF Contains09(url, "ratelimit") THEN AppErr09("RateLimited")
            ELSE Ok09
    IN
        \* create_user
    LET CreateUser09(username, email) ==
            IF ~Contains09(email, "@") THEN AppErr09("ValidationError")
            ELSE IF username \in KNOWN_USERS THEN OtherErr09("Username already exists")
            ELSE Ok09
    IN
        \* get_user
    LET GetUser09(username) ==
            IF username \in KNOWN_USERS THEN Ok09 ELSE AppErr09("UserNotFound")
    IN
        \* write_file
    LET WriteFile09(path, force) ==
            LET filename == FileName09(path)
            IN  IF Contains09(filename, "readonly") THEN AppErr09("PermissionDenied")
                ELSE IF ~force /\ Contains09(filename, "exists")
                THEN OtherErr09("File already exists")
                ELSE Ok09
    IN
        \* read_file
    LET ReadFile09(path) ==
            LET filename == FileName09(path)
            IN  IF Contains09(filename, "nonexistent") \/ Contains09(filename, "missing")
                THEN AppErr09("FileNotFound")
                ELSE IF Contains09(filename, "protected") THEN AppErr09("PermissionDenied")
                ELSE Ok09
    IN
    LET cmd == c.command
    IN  CASE cmd.kind = "file read"     -> ReadFile09(cmd.path)
          [] cmd.kind = "file write"    -> WriteFile09(cmd.path, cmd.force)
          [] cmd.kind = "user get"      -> GetUser09(cmd.username)
          [] cmd.kind = "user create"   -> CreateUser09(cmd.username, cmd.email)
          [] cmd.kind = "network fetch" -> FetchUrl09(cmd.url)
          [] cmd.kind = "network ping"  -> PingHost09(cmd.host)
          [] cmd.kind \in {"config load", "config validate"} -> LoadConfig09(cmd.path, d)

GetExitCode09_Generic(error) == 1

\* get_exit_code
GetExitCode09(error) == IF error.app THEN ExitCode09(error.variant) ELSE 1

Init09 ==
        \* The command lines: a subcommand with the global flags, --help,
        \* --version, or no subcommand.
    LET Argv09 ==
                \* The subcommands with their arguments.
            LET Commands09 ==
                    LET Retries09 == {0, 3, 11}
                    IN
                    LET Hosts09 == { <<"localhost">>, <<"unreachable">> }
                    IN
                    LET Urls09 ==
                            { <<"http://", "example.org">>, <<"https://", "slow">>, <<"http://", "ratelimit">>,
                              <<"invalid://", "url">> }
                    IN
                    LET Emails09 == { <<"zed", "@", "example.org">>, <<"zed">> }
                    IN
                    [kind : {"file read"}, path : Paths09, retries : Retries09]
                    \cup [kind : {"file write"}, path : Paths09, force : BOOLEAN]
                    \cup [kind : {"user get"}, username : Users09]
                    \cup [kind : {"user create"}, username : Users09, email : Emails09]
                    \cup [kind : {"network fetch"}, url : Urls09]
                    \cup [kind : {"network ping"}, host : Hosts09]
                    \cup [kind : {"config load", "config validate"}, path : Paths09]
            IN
            [verbose : BOOLEAN, quiet : BOOLEAN, command : Commands09]
            \cup [kind : {"--help", "--version", "none"}]
    IN
    /\ prog = "error-demo"
    /\ runs = 0
    /\ pc = "start"
    /\ argv \in Argv09
    /\ env = None
    /\ disk \in SUBSET { <<"missing", ".toml">> }
    /\ cli = None
    /\ cfg = None
    /\ out = None

\* main: Cli::try_parse(), and e.exit() on an error
Parse09 ==
        \* clap's Error::exit: 0 after printing help or version, else 2
    LET ClapExitCode(error) == IF error \in {"DisplayHelp", "DisplayVersion"} THEN 0 ELSE 2
    IN
        \* Cli::try_parse: help and version are reported as errors, as are a
        \* missing subcommand and retries outside 1..=10.
    LET TryParse09(a) ==
            IF "kind" \in DOMAIN a
            THEN [ok |-> FALSE,
                  error |-> CASE a.kind = "--help"    -> "DisplayHelp"
                              [] a.kind = "--version" -> "DisplayVersion"
                              [] a.kind = "none"      -> "MissingSubcommand"]
            ELSE IF a.command.kind = "file read" /\ a.command.retries \notin 1..10
            THEN [ok |-> FALSE, error |-> "InvalidValue"]
            ELSE [ok |-> TRUE, error |-> "none", verbose |-> a.verbose, quiet |-> a.quiet,
                  command |-> a.command]
    IN
    /\ prog = "error-demo" /\ pc = "start"
    /\ cli' = TryParse09(argv)
    /\ IF cli'.ok
       THEN pc' = "parsed" /\ out' = out
       ELSE pc' = "done" /\ out' = [code |-> ClapExitCode(cli'.error)]
    /\ UNCHANGED <<prog, runs, argv, env, disk, cfg>>

\* main: run(cli)
RunCli09 ==
    /\ prog = "error-demo" /\ pc = "parsed"
    /\ cfg' = Run09(cli, disk)
    /\ pc' = "ran"
    /\ UNCHANGED <<prog, runs, argv, env, disk, cli, out>>

\* main: on an error display it and exit with its code; else return
Main09 ==
    /\ prog = "error-demo" /\ pc = "ran"
    /\ out' = [code |-> IF cfg.ok THEN 0 ELSE GetExitCode09(cfg)]
    /\ pc' = "done"
    /\ UNCHANGED <<prog, runs, argv, env, disk, cli, cfg>>

Next09 ==
    \/ Parse09
    \/ RunCli09
    \/ Main09

SpecErrorDemo == Init09 /\ [][Next09]_vars

Done09 == prog = "error-demo" /\ pc = "done"

\* The codes of the error returned by run, as the claim states them.
ErrorCodes09 ==
    /\ \A v \in AppErrors09 : ExitCode09(v) \in 2..10
    /\ \A v, w \in AppErrors09 : v # w => ExitCode09(v) # ExitCode09(w)
    /\ (Done09 /\ cfg # None /\ ~cfg.ok) =>
          /\ out.code # 0
          /\ cfg.app => (cfg.variant \in AppErrors09 /\ out.code = ExitCode09(cfg.variant))
          /\ ~cfg.app => out.code = 1
          /\ cfg = AppErr09("FileNotFound") => out.code = 2
          /\ cfg = AppErr09("ValidationError") => out.code = 10

\* C13 as claimed: every error returned by run exits with a non-zero code,
\* an AppError with its variant's code (nine distinct codes in 2..=10), any
\* other error with 1, and exit code 0 occurs only when run returns Ok.
C13_ExitCodeZeroOnlyWhenRunOk ==
    /\ ErrorCodes09
    /\ (Done09 /\ out.code = 0) => (cfg # None /\ cfg.ok)

\* C13 as amended: ... and exit code 0 occurs only when run returns Ok or
\* the command line asks for the help or the version, which clap prints
\* without run being called.
C13_ExitCodes ==
    /\ ErrorCodes09
    /\ (Done09 /\ out.code = 0) =>
          \/ cfg # None /\ cfg.ok
          \/ cfg = None /\ "kind" \in DOMAIN argv /\ argv.kind \in {"--help", "--version"}

C13_Witness ==
    /\ Done09
    /\ cfg = AppErr09("UserNotFound")
    /\ "command" \in DOMAIN argv
    /\ argv.command = [kind |-> "user get", username |-> <<"admn">>]
    /\ out.code = 4

(***************************************************************************)
(* Example 11, mod unit_tests: the execute_* functions and execute called  *)
(* directly.  argv is the call, cfg the CommandResult (or the panic).      *)
(***************************************************************************)
\* The longest list of numbers and the largest count of a call.
MaxNumbers == 3
MaxCount == 3

Names11 == { <<>>, <<"World">> }
\* The function called directly.
Direct11(call) ==
    CASE call.fn = "hello" -> {ExecuteHello(call.name, call.verbose)}
      [] call.fn = "add" -> ExecuteAdd(call.numbers, call.verbose)
      [] call.fn = "greet" ->
            {ExecuteGreet(call.name, call.greeting, call.count, call.verbose)}
      [] call.fn = "process" ->
            {ExecuteProcess(call.input, call.output, call.mode, call.verbose)}

InitUnit11 ==
        \* The calls: via tells whether the function is called directly or
        \* through execute(&cli).
    LET Calls11 ==
            LET NumberLists11 ==
                    LET Numbers11 == {I64Min, 0 - 5, 0 - 3, 0, 2, 10, I64Max}
                    IN
                                 UNION {[1..n -> Numbers11] : n \in 0..MaxNumbers}
            IN
            LET Greetings11 == { <<"Hello">>, <<"Hi">> }
            IN
            [fn : {"hello"}, name : Names11, verbose : BOOLEAN, via : {"direct", "execute"}]
            \cup [fn : {"add"}, numbers : NumberLists11, verbose : BOOLEAN,
                  via : {"direct", "execute"}]
            \cup [fn : {"greet"}, name : Names11, greeting : Greetings11, count : 0..MaxCount,
                  verbose : BOOLEAN, via : {"direct", "execute"}]
            \cup [fn : {"process"}, input : Names11, output : {None, Some(<<"result.csv">>)},
                  mode : {None, Some(<<"fast">>)}, verbose : BOOLEAN, via : {"direct", "execute"}]
    IN
    /\ prog = "unit_tests"
    /\ runs = 0
    /\ pc = "start"
    /\ argv \in Calls11
    /\ env = None
    /\ disk = None
    /\ cli = None
    /\ cfg = None
    /\ out = None

\* let result = execute_*(..)
Call11 ==
    /\ prog = "unit_tests" /\ pc = "start"
    /\ argv.via = "direct"
    /\ cfg' \in Direct11(argv)
    /\ pc' = "returned"
    /\ UNCHANGED <<prog, runs, argv, env, disk, cli, out>>

\* let result = execute(&cli)
CallExecute11 ==
        \* The Cli of the call through execute.
    LET CliOf11(call) ==
            CASE call.fn = "hello" ->
                    [Start11 EXCEPT !.verbose = call.verbose, !.command = Some("hello"),
                                    !.name = Some(call.name)]
              [] call.fn = "add" ->
                    [Start11 EXCEPT !.verbose = call.verbose, !.command = Some("add"),
                                    !.numbers = call.numbers]
              [] call.fn = "greet" ->
                    [Start11 EXCEPT !.verbose = call.verbose, !.command = Some("greet"),
                                    !.name = Some(call.name), !.greeting = Some(call.greeting),
                                    !.count = Some(call.count)]
              [] call.fn = "process" ->
                    [Start11 EXCEPT !.verbose = call.verbose, !.command = Some("process"),
                                    !.input = Some(call.input), !.output = call.output,
                                    !.mode = call.mode]
    IN
    /\ prog = "unit_tests" /\ pc = "start"
    /\ argv.via = "execute"
    /\ cli' = CliOf11(argv)
    /\ cfg' \in Execute11(cli')
    /\ pc' = "returned"
    /\ UNCHANGED <<prog, runs, argv, env, disk, out>>

NextUnit11 ==
    \/ Call11
    \/ CallExecute11

SpecUnitTests == InitUnit11 /\ [][NextUnit11]_vars

Returned11 == prog = "unit_tests" /\ pc = "returned"

\* The inputs of the call are valid.
ValidCall11 ==
    CASE argv.fn = "hello"   -> argv.name # <<>>
      [] argv.fn = "add"     -> argv.numbers # <<>>
      [] argv.fn = "greet"   -> argv.name # <<>> /\ argv.count >= 1
      [] argv.fn = "process" -> argv.input # <<>>

\* The arithmetic sum of a list.
RECURSIVE ArithSum(_)
ArithSum(numbers) ==
    IF numbers = <<>> THEN 0
    ELSE ArithSum(SubSeq(numbers, 1, Len(numbers) - 1)) + numbers[Len(numbers)]

\* Every sum of the first k numbers is an i64.
SumsInRange(numbers) ==
    \A k \in 1..Len(numbers) :
        LET s == ArithSum(SubSeq(numbers, 1, k))
        IN  s >= 0 - 2 ^ (I64Bits - 1) /\ s <= 2 ^ (I64Bits - 1) - 1

\* C14 as claimed: every execute_* function returns exit_code 0 exactly
\* when its inputs are valid and exit_code 1 otherwise, no other exit code
\* is produced, and execute(cli) returns the result of the function
\* matching cli.command called with cli.verbose.
C14_ExitCodeByValidity ==
    Returned11 =>
        /\ ~cfg.panicked
        /\ cfg.exit_code = IF ValidCall11 THEN 0 ELSE 1
        /\ argv.via = "execute" => cfg \in Direct11(argv)

\* C14 as amended: ... unless the sum of execute_add overflows an i64,
\* where a build with overflow checks panics instead of returning.
C14_ExitCodeByValidityNoOverflow ==
    Returned11 =>
        /\ cfg.panicked => (argv.fn = "add" /\ ~SumsInRange(argv.numbers))
        /\ ~cfg.panicked => cfg.exit_code = IF ValidCall11 THEN 0 ELSE 1
        /\ argv.via = "execute" => cfg \in Direct11(argv)

C14_Witness ==
    /\ Returned11
    /\ argv = [fn |-> "greet", name |-> <<"World">>, greeting |-> <<"Hi">>, count |-> 0,
               verbose |-> FALSE, via |-> "execute"]
    /\ cfg.exit_code = 1

\* The texts between the separators of a text.
RECURSIVE SplitAt(_, _)
SplitAt(text, sep) ==
    IF \A i \in 1..Len(text) : text[i] # sep THEN <<text>>
    ELSE LET i == CHOOSE k \in 1..Len(text) :
                      text[k] = sep /\ \A j \in 1..(k - 1) : text[j] # sep
         IN  <<SubSeq(text, 1, i - 1)>> \o SplitAt(SubSeq(text, i + 1, Len(text)), sep)

\* The line reads prefix and then the numeral of n.
ReadsNumber(line, prefix, n) ==
    /\ Len(line) > Len(prefix)
    /\ SubSeq(line, 1, Len(prefix)) = prefix
    /\ LET r == ParseI64(SubSeq(line, Len(prefix) + 1, Len(line)))
       IN  r.ok /\ r.value = n

\* The result of execute_add for a non-empty list: exit_code 0, the last
\* line "Sum: S" with S the arithmetic sum, and in verbose mode before it
\* the operands joined with " + " in input order.
AddResult15 ==
    /\ ~cfg.panicked
    /\ cfg.exit_code = 0
    /\ Len(cfg.output) = IF argv.verbose THEN 2 ELSE 1
    /\ ReadsNumber(cfg.output[Len(cfg.output)], <<"Sum: ">>, ArithSum(argv.numbers))
    /\ argv.verbose =>
          LET line     == cfg.output[1]
              operands == SplitAt(SubSeq(line, 3, Len(line)), " + ")
          IN  /\ SubSeq(line, 1, 2) = <<"[verbose]", " Calculating: ">>
              /\ Len(operands) = Len(argv.numbers)
              /\ \A i \in 1..Len(operands) :
                     ReadsNumber(operands[i], <<>>, argv.numbers[i])

\* The result of execute_add for the empty list.
AddEmpty15 ==
    /\ ~cfg.panicked
    /\ cfg.exit_code = 1
    /\ \E i \in 1..Len(cfg.output) : "No numbers" \in Range(cfg.output[i])

\* C15 as claimed: for every non-empty list of i64 values execute_add
\* returns exit_code 0 and "Sum: S" with S the arithmetic sum (after the
\* operands joined with " + " in verbose mode); for the empty list it
\* returns exit_code 1 with a message containing "No numbers".
C15_AddSumsEveryList ==
    (Returned11 /\ argv.fn = "add") =>
        IF argv.numbers = <<>> THEN AddEmpty15 ELSE AddResult15

\* C15 as amended: for every non-empty list of i64 values whose sums of
\* the first k values are all i64 values ...
C15_AddSumsWithoutOverflow ==
    (Returned11 /\ argv.fn = "add") =>
        IF argv.numbers = <<>> THEN AddEmpty15
        ELSE SumsInRange(argv.numbers) => AddResult15

C15_Witness ==
    /\ Returned11
    /\ argv = [fn |-> "add", numbers |-> <<0 - 5, 10, 0 - 3>>, verbose |-> TRUE,
               via |-> "direct"]
    /\ cfg.output = << <<"[verbose]", " Calculating: ", "-", "5", " + ", "1", "0", " + ",
                         "-", "3">>,
                       <<"Sum: ", "2">> >>

\* The text has the part as consecutive symbols.
ContainsSeq(text, part) ==
    \E i \in 0..(Len(text) - Len(part)) : SubSeq(text, i + 1, i + Len(part)) = part

\* The lines with the greeting of the call.
GreetingLines16 ==
    {i \in 1..Len(cfg.output) :
        ContainsSeq(cfg.output[i], argv.greeting \o <<", ">> \o argv.name \o <<"!">>)}

VerboseLines16 == {i \in 1..Len(cfg.output) : "[verbose]" \in Range(cfg.output[i])}

\* C16: execute_greet with a non-empty name and count >= 1 returns
\* exit_code 0 and exactly count greeting lines, each containing
\* "<greeting>, <name>!", plus exactly one leading "[verbose]" line when
\* verbose is set; with count = 0 it returns exit_code 1 and no greeting
\* line.
C16_GreetCountLines ==
    (Returned11 /\ argv.fn = "greet") =>
        /\ (argv.name # <<>> /\ argv.count >= 1) =>
              /\ cfg.exit_code = 0
              /\ Cardinality(GreetingLines16) = argv.count
              /\ VerboseLines16 = IF argv.verbose THEN {1} ELSE {}
              /\ GreetingLines16 \cup VerboseLines16 = 1..Len(cfg.output)
        /\ argv.count = 0 => (cfg.exit_code = 1 /\ GreetingLines16 = {})

C16_Witness ==
    /\ Returned11
    /\ argv = [fn |-> "greet", name |-> <<"World">>, greeting |-> <<"Hi">>, count |-> 3,
               verbose |-> TRUE, via |-> "direct"]
    /\ Len(cfg.output) = 4
    /\ cfg.output[4] = <<"[", "3", "] ", "Hi", ", ", "World", "!">>

\* The command line without its verbose flags.
Stripped17 == SelectSeq(argv, LAMBDA t : t \notin VerboseTokens11)

\* The command line has no subcommand, an unknown subcommand, hello
\* without a name, or add without a number.
Incomplete17 ==
    \/ Stripped17 = <<>>
    \/ Len(Head(Stripped17)) # 1
    \/ Head(Stripped17)[1] \notin {"hello", "add", "greet", "process"}
    \/ Stripped17 \in { << <<"hello">> >>, << <<"add">> >> }

\* C17: parse failure is all-or-nothing: a command line with no
\* subcommand, an unknown subcommand, hello without a name or add without
\* a number makes parsing return an error and the process exit with a
\* non-zero code, and no execute_* function runs; whenever parsing has
\* failed no CommandResult exists and nothing is printed on stdout.
C17_ParseFailureRunsNothing ==
    prog = "testable-cli" =>
        /\ (pc = "done" /\ Incomplete17) =>
              (cli.error # None /\ out.code # 0 /\ out.stdout = <<>> /\ cfg = None)
        /\ cli.error # None => (pc \in {"failed", "done"} /\ cfg = None)
        /\ (pc = "done" /\ cli.error # None) => (out.code # 0 /\ out.stdout = <<>>)

C17_Witness ==
    /\ prog = "testable-cli" /\ pc = "done"
    /\ argv = << <<"-", "v">>, <<"add">> >>
    /\ cli.error = Some("MissingRequiredArgument")
    /\ cfg = None
    /\ out.code = 2

\* The token is '-' followed by digits.
NegativeNumeral18(t) ==
    Len(t) >= 2 /\ t[1] = "-" /\ \A i \in 2..Len(t) : t[i] \in Range(DigitChars)

\* The tokens after add are numerals, one of them negative.
AddNegatives18 ==
    /\ Len(argv) >= 2
    /\ argv[1] = <<"add">>
    /\ \A i \in 2..Len(argv) : ParseI64(argv[i]).ok
    /\ \E i \in 2..Len(argv) : NegativeNumeral18(argv[i])

\* C18: add accepts negative integers as positional values: every token
\* of the form '-' digits after add is bound as a number of numbers, not
\* read as a flag, and the command succeeds printing the sum; for
\* [add, -5, 10, -3] it prints "Sum: 2".
C18_NegativeNumbersArePositionals ==
    (prog = "testable-cli" /\ AddNegatives18) =>
        /\ cli.error = None
        /\ cli.numbers = [i \in 1..(Len(argv) - 1) |-> ParseI64(argv[i + 1]).value]
        /\ (pc = "done" /\ SumsInRange(cli.numbers)) =>
              /\ out.code = 0
              /\ ReadsNumber(out.stdout[Len(out.stdout)], <<"Sum: ">>, ArithSum(cli.numbers))
        /\ (pc = "done" /\ argv = << <<"add">>, <<"-", "5">>, <<"1", "0">>, <<"-", "3">> >>)
              => out.stdout = << <<"Sum: ", "2">> >>

\* C19: host and port can be set through MYAPP_HOST and MYAPP_PORT as well as
\* APP_HOST and APP_PORT: with the prefixed variable set and neither the
\* command line token nor the unprefixed variable given, the resolved value
\* is that of the prefixed variable, with source env.
C19_PrefixedVariablesSetHostAndPort ==
    Resolved08 =>
        \A o \in {"host", "port"} :
            LET prefixed == env[IF o = "host" THEN "MYAPP_HOST" ELSE "MYAPP_PORT"]
            IN  (prefixed # None /\ argv[o] = None /\ env[EnvOf08(o)] = None)
                    => cfg[o] = Unwrap(prefixed) /\ cfg.sources[o] = "env"

\* What a run of myapp prints, started with the command line a, the
\* environment e and the configuration file d.
Run08(a, e, d) ==
    LET c == CliParse08(a, e)
    IN  Output08(FromCliAndFile(c, d, e), c.show_config)

\* The environment of the run, with API_KEY set to k and SECRET_TOKEN to t.
WithSecrets08(k, t) ==
    [env EXCEPT !["API_KEY"] = Some(k), !["SECRET_TOKEN"] = Some(t)]

\* Both secrets are set and the run has printed its output.
SecretsSet08 ==
    prog = "myapp" /\ pc = "done" /\ env["API_KEY"] # None /\ env["SECRET_TOKEN"] # None

\* C20 as stated: a run with API_KEY and SECRET_TOKEN set prints what the
\* run with any other values of the two variables prints, in both modes.
C20_SecretsNeverDisplayed ==
    SecretsSet08 =>
        \A k, t \in Secrets08 \cup {NotUnicode} :
            Run08(argv, WithSecrets08(k, t), disk) = out

\* C20: api_key and secret_token are the values of API_KEY and SECRET_TOKEN
\* alone, whatever the command line and the configuration file hold; a run
\* with both variables set prints what the run with any other values prints,
\* in both modes, provided each variable is valid Unicode in both runs or in
\* neither (a value that is not valid Unicode is reported as not set).
C20_SecretsNeverDisplayedUnicode ==
    /\ Resolved08 =>
          /\ cfg.api_key \in {None, env["API_KEY"]}
          /\ cfg.secret_token \in {None, env["SECRET_TOKEN"]}
          /\ cfg.api_key # None <=> (env["API_KEY"] # None /\ env["API_KEY"] # Some(NotUnicode))
          /\ cfg.secret_token # None
                <=> (env["SECRET_TOKEN"] # None /\ env["SECRET_TOKEN"] # Some(NotUnicode))
    /\ SecretsSet08 =>
          \A k, t \in Secrets08 \cup {NotUnicode} :
              (/\ k = NotUnicode <=> env["API_KEY"] = Some(NotUnicode)
               /\ t = NotUnicode <=> env["SECRET_TOKEN"] = Some(NotUnicode))
                  => Run08(argv, WithSecrets08(k, t), disk) = out

C20_Witness ==
    /\ prog = "myapp" /\ pc = "done"
    /\ env["API_KEY"] = Some("s3cret") /\ env["SECRET_TOKEN"] = Some("hunter2")
    /\ cli.show_config
    /\ out.api_key = "[set]" /\ out.secret_token = "[set]"

\* C21: from_cli_and_file does not read the environment of the process: called
\* again with the same Cli and FileConfig while one variable of the
\* environment has been set, changed or removed, it yields the same host,
\* port, sources and secrets.
C21_ResolutionIgnoresProcessEnvironment ==
    Resolved08 =>
        \A v \in EnvVars08 :
            \A x \in {None} \cup {Some(y) : y \in ValuesOf08(v)} :
                LET again == FromCliAndFile(cli, disk, [env EXCEPT ![v] = x])
                IN  /\ again.host = cfg.host
                    /\ again.port = cfg.port
                    /\ again.sources = cfg.sources
                    /\ again.api_key = cfg.api_key
                    /\ again.secret_token = cfg.secret_token

(***************************************************************************)
(* Example 10: pluggable-cli (plugin registry).  cfg is the PluginRegistry, *)
(* cli the Command built from it and the subcommand matched, out what main *)
(* prints.                                                                 *)
(***************************************************************************)
\* The plugins main registers, in the order of registration, with
\* Plugin::name, version and description of each.
Registered10 ==
    << [name |-> "file",  version |-> "1.0.0", description |-> "File system operations"],
       [name |-> "user",  version |-> "1.2.0", description |-> "User management operations"],
       [name |-> "stats", version |-> "0.9.0", description |-> "Analytics and statistics" ] >>

\* HashMap::new(): the RandomState of the map decides the places of the keys,
\* and with them the order of iteration; any order can come out.
HashMapNew ==
    LET keys == {Registered10[i].name : i \in DOMAIN Registered10}
    IN  {[plugins |-> <<>>, places |-> s] :
            s \in {s \in [1..Cardinality(keys) -> keys] :
                      \A i, j \in DOMAIN s : s[i] = s[j] => i = j}}

\* PluginRegistry::register: self.plugins.insert(name, plugin); a plugin of
\* the same name is replaced.
Register(reg, plugin) ==
    LET kept == SelectSeq(reg.plugins, LAMBDA p : p.name # plugin.name)
    IN  [reg EXCEPT !.plugins = Append(kept, plugin)]

\* PluginRegistry::get
Get10(reg, name) ==
    LET found == SelectSeq(reg.plugins, LAMBDA p : p.name = name)
    IN  IF found = <<>> THEN None ELSE Some(found[1])

\* PluginRegistry::all: self.plugins.values(), in the order of the places of
\* the keys in the map.
All10_SkipFirst(reg) ==
    LET names == SelectSeq(reg.places, LAMBDA n : Get10(reg, n) # None)
    IN  [i \in 1..(Len(names) - 1) |-> Unwrap(Get10(reg, names[i + 1]))]

All10(reg) ==
    LET names == SelectSeq(reg.places, LAMBDA n : Get10(reg, n) # None)
    IN  [i \in 1..Len(names) |-> Unwrap(Get10(reg, names[i]))]

\* PluginRegistry::build_cli: the subcommands of pluggable-cli, one for each
\* plugin and then plugin.
BuildCli(reg) ==
    [i \in 1..Len(All10(reg)) |-> All10(reg)[i].name] \o <<"plugin">>

\* The command lines considered, without the name of the program.
Argv10 ==
    { <<>>, <<"bogus">>, <<"plugin">>, <<"plugin", "list">>, <<"stats">>,
      <<"stats", "clear">> }
    \cup {<<"plugin", "info", n>> : n \in {"file", "user", "stats", "bogus"}}

\* handle_plugin_command and the execute of the stats plugin: what main
\* prints for the subcommand matched, and the exit code.
Handle10(reg, a) ==
    LET PluginLines(p) ==
            << <<"  ", p.name, " v", p.version>>, <<"    ", p.description>> >>
        RECURSIVE Listing(_)
        Listing(ps) ==
            IF ps = <<>> THEN <<>> ELSE PluginLines(Head(ps)) \o Listing(Tail(ps))
        Ok(lines) == [code |-> 0, stdout |-> lines, stderr |-> <<>>]
        Err(msg) == [code |-> 1, stdout |-> <<>>, stderr |-> << <<"Error: ">> \o msg >>]
    IN  CASE a = <<"plugin", "list">> ->
                Ok(<< <<"Loaded plugins:">>, <<>> >> \o Listing(All10(reg)))
          [] Len(a) = 3 ->
                LET p == Get10(reg, a[3])
                IN  IF p = None THEN Err(<<"Plugin not found: ", a[3]>>)
                    ELSE Ok(<< <<"Plugin: ", Unwrap(p).name>>,
                               <<"Version: ", Unwrap(p).version>>,
                               <<"Description: ", Unwrap(p).description>> >>)
          [] a = <<"plugin">> -> Err(<<"Unknown plugin subcommand">>)
          [] a = <<"stats", "clear">> -> Ok(<< <<"Statistics cleared">> >>)
          [] OTHER -> Err(<<"Unknown stats subcommand">>)

Init10 ==
    /\ prog = "pluggable-cli"
    /\ runs = 0
    /\ pc = "start"
    /\ argv = None
    /\ env = None
    /\ disk = None
    /\ cli = None
    /\ cfg = None
    /\ out = None

\* let mut registry = PluginRegistry::new()
New10 ==
    /\ prog = "pluggable-cli" /\ pc = "start"
    /\ cfg' \in HashMapNew
    /\ pc' = "registering"
    /\ UNCHANGED <<prog, runs, argv, env, disk, cli, out>>

\* registry.register(Box::new(..)): the next plugin of main.
Register10 ==
    /\ prog = "pluggable-cli" /\ pc = "registering"
    /\ Len(cfg.plugins) < Len(Registered10)
    /\ cfg' = Register(cfg, Registered10[Len(cfg.plugins) + 1])
    /\ UNCHANGED <<prog, runs, pc, argv, env, disk, cli, out>>

\* let cli = registry.build_cli()
Build10 ==
    /\ prog = "pluggable-cli" /\ pc = "registering"
    /\ Len(cfg.plugins) = Len(Registered10)
    /\ cli' = [subcommands |-> BuildCli(cfg)]
    /\ pc' = "built"
    /\ UNCHANGED <<prog, runs, argv, env, disk, cfg, out>>

\* let matches = cli.get_matches(): without arguments the help is printed
\* (arg_required_else_help), and an unknown subcommand is an error; both end
\* the process with code 2.
Parse10(a) ==
    /\ prog = "pluggable-cli" /\ pc = "built"
    /\ argv' = a
    /\ IF a = <<>>
       THEN /\ out' = [code |-> 2, stdout |-> <<>>,
                       stderr |-> << <<"Commands:">> >> \o
                                  [i \in 1..Len(cli.subcommands) |-> <<"  ", cli.subcommands[i]>>]]
            /\ pc' = "done"
       ELSE IF a[1] \notin Range(cli.subcommands)
       THEN /\ out' = [code |-> 2, stdout |-> <<>>,
                       stderr |-> << <<"error: unrecognized subcommand ", a[1]>> >>]
            /\ pc' = "done"
       ELSE /\ out' = out
            /\ pc' = "matched"
    /\ UNCHANGED <<prog, runs, env, disk, cli, cfg>>

\* main: route the subcommand to its handler, print, exit.
Main10 ==
    /\ prog = "pluggable-cli" /\ pc = "matched"
    /\ out' = Handle10(cfg, argv)
    /\ pc' = "done"
    /\ UNCHANGED <<prog, runs, argv, env, disk, cli, cfg>>

Next10 ==
    \/ New10
    \/ Register10
    \/ Build10
    \/ \E a \in Argv10 : Parse10(a)
    \/ Main10

SpecPluggableCli == Init10 /\ [][Next10]_vars

\* The names of the plugins in the order main registers them.
RegisteredNames10 == [i \in DOMAIN Registered10 |-> Registered10[i].name]

\* The names that the lines of `plugin list` show, in the order printed.
ListedNames10 ==
    LET shown == SelectSeq(out.stdout, LAMBDA l : Len(l) = 4 /\ l[1] = "  ")
    IN  [i \in DOMAIN shown |-> shown[i][2]]

Listed10 == prog = "pluggable-cli" /\ pc = "done" /\ argv = <<"plugin", "list">>

\* C22 as stated: the subcommands built by build_cli and the listing of
\* `plugin list` are in the order of registration: file, user, stats.
C22_RegistryInsertionOrdered ==
    /\ (prog = "pluggable-cli" /\ pc \in {"built", "matched", "done"})
          => cli.subcommands = RegisteredNames10 \o <<"plugin">>
    /\ Listed10 => ListedNames10 = RegisteredNames10

\* C22: the registry is keyed by plugin name: the subcommands built by
\* build_cli are the registered plugins, each once and in some order, and
\* then plugin; `plugin list` shows each registered plugin once, with its
\* version and its description, in some order.
C22_RegistryEnumeratesEachPluginOnce ==
    /\ (prog = "pluggable-cli" /\ pc \in {"built", "matched", "done"}) =>
          /\ Len(cli.subcommands) = Len(Registered10) + 1
          /\ cli.subcommands[Len(cli.subcommands)] = "plugin"
          /\ \A i \in DOMAIN Registered10 :
                Cardinality({j \in 1..Len(Registered10) :
                                cli.subcommands[j] = Registered10[i].name}) = 1
    /\ Listed10 =>
          /\ out.code = 0
          /\ Len(out.stdout) = 2 + 2 * Len(Registered10)
          /\ \A i \in DOMAIN Registered10 :
                Cardinality({j \in 1..Len(Registered10) :
                    /\ out.stdout[2 * j + 1] = <<"  ", Registered10[i].name, " v", Registered10[i].version>>
                    /\ out.stdout[2 * j + 2] = <<"    ", Registered10[i].description>>}) = 1

C22_Witness ==
    /\ Listed10
    /\ ListedNames10 = <<"stats", "file", "user">>
    /\ cli.subcommands = <<"stats", "file", "user", "plugin">>

(***************************************************************************)
(* Example 12, Config as a key store: set and unset called on a Config.    *)
(* cfg is the Config, argv the calls made so far, out the result of the    *)
(* last call.                                                              *)
(***************************************************************************)
\* The most calls made on one Config.
MaxCalls == 3

Init23 ==
    /\ prog = "cloudctl::config"
    /\ runs = 0
    /\ pc = "new"
    /\ argv = <<>>
    /\ env = None
    /\ disk = None
    /\ cli = None
    /\ cfg = ConfigDefault
    /\ out = None

\* config.set(key, value)
Set23(key, value) ==
    /\ prog = "cloudctl::config"
    /\ Len(argv) < MaxCalls
    /\ LET r == ConfigSet(cfg, key, value)
       IN  /\ cfg' = r.config
           /\ out' = IF r.ok THEN [ok |-> TRUE] ELSE [ok |-> FALSE, error |-> r.error]
    /\ argv' = Append(argv, [op |-> "set", key |-> key, value |-> Some(value)])
    /\ pc' = "called"
    /\ UNCHANGED <<prog, runs, env, disk, cli>>

\* config.unset(key)
Unset23(key) ==
    /\ prog = "cloudctl::config"
    /\ Len(argv) < MaxCalls
    /\ LET r == ConfigUnset(cfg, key)
       IN  /\ cfg' = r.config
           /\ out' = IF r.ok THEN [ok |-> TRUE] ELSE [ok |-> FALSE, error |-> r.error]
    /\ argv' = Append(argv, [op |-> "unset", key |-> key, value |-> None])
    /\ pc' = "called"
    /\ UNCHANGED <<prog, runs, env, disk, cli>>

Next23 ==
    \/ \E key \in Keys12 \cup {"bogus", "profiles"} : \E value \in {"a", "b"} : Set23(key, value)
    \/ \E key \in Keys12 \cup {"bogus", "profiles"} : Unset23(key)

SpecConfigStore == Init23 /\ [][Next23]_vars

\* The calls made so far on the key k.
CallsOn23(k) == SelectSeq(argv, LAMBDA c : c.key = k)

\* The place of a key in the order project, region, zone, endpoint,
\* output_format.
Place23(k) == CHOOSE i \in DOMAIN KeyOrder12 : KeyOrder12[i] = k

\* What get, list and the result of the last call are after the calls made.
KeyStore23 ==
    prog = "cloudctl::config" =>
        /\ \A k \in Keys12 :
              LET calls == CallsOn23(k)
              IN  ConfigGet(cfg, k) =
                      IF calls = <<>> THEN None ELSE calls[Len(calls)].value
        /\ cfg.profiles = ConfigDefault.profiles
        /\ DOMAIN cfg = DOMAIN ConfigDefault
        /\ (argv # <<>>) =>
              LET last == argv[Len(argv)]
              IN  IF last.key \in Keys12 THEN out.ok
                  ELSE ~out.ok /\ out.error = "InvalidArgument"
        /\ \A k \in {"bogus", "profiles"} : ConfigGet(cfg, k) = None
        /\ LET l == ConfigList(cfg)
           IN  /\ {l[i][1] : i \in DOMAIN l} = {k \in Keys12 : ConfigGet(cfg, k) # None}
               /\ \A i \in DOMAIN l : Some(l[i][2]) = ConfigGet(cfg, l[i][1])
               /\ \A i, j \in DOMAIN l : i < j => Place23(l[i][1]) < Place23(l[j][1])

\* C23: on a new Config, after any calls of set and unset, get of a known key
\* is the value of the last set of that key unless an unset of it came later
\* (None then, and without any set); a set or unset of another key returns
\* InvalidArgument and leaves every field of the config as it was; list is
\* the known keys whose get is Some, with their values, in the order project,
\* region, zone, endpoint, output_format.
C23_ConfigKeyStore ==
    /\ []KeyStore23
    /\ [][(prog = "cloudctl::config" /\ argv'[Len(argv')].key \notin Keys12)
              => cfg' = cfg]_vars

C23_Witness ==
    /\ prog = "cloudctl::config"
    /\ argv = << [op |-> "set", key |-> "region", value |-> Some("b")],
                 [op |-> "set", key |-> "project", value |-> Some("a")],
                 [op |-> "unset", key |-> "region", value |-> None] >>
    /\ ConfigGet(cfg, "region") = None
    /\ ConfigList(cfg) = << <<"project", "a">> >>

\* What a later `config get key` prints, invoked with the same configuration
\* path on the files d.
LaterGet24(d, key) ==
    Execute([kind |-> "config get", key |-> key],
            [config |-> LoadConfig(d, cli.config), dry_run |-> FALSE, profile |-> None],
            d).lines

\* C24: whichever path the configuration is loaded from, after `config set k
\* v` succeeds a later `config get k` with the same path prints v, after
\* `config unset k` succeeds it prints (not set), and a set or unset that
\* fails on an unknown key writes no file.
C24_SetUnsetRoundTrip ==
    [][(prog = "cloudctl" /\ pc = "loaded"
        /\ cli.command.kind \in {"config set", "config unset"}) =>
          /\ (out'.code = 0 /\ cli.command.kind = "config set")
                => LaterGet24(disk', cli.command.key) = <<cli.command.value>>
          /\ (out'.code = 0 /\ cli.command.kind = "config unset")
                => LaterGet24(disk', cli.command.key) = <<"(not set)">>
          /\ out'.code # 0 => (cli.command.key \notin Keys12 /\ disk' = disk)
          /\ cli.command.key \notin Keys12 => (out'.code # 0 /\ disk' = disk)]_vars

====
